---- MODULE Spec2Model ----
(***************************************************************************)
(* A model of the crackdb query engine: the value and expression algebra,  *)
(* the interpreter, the pull-based physical operators (scan, Limit, Sort,  *)
(* HashAggregator), the in-memory table with its reader/writer lock, and   *)
(* the rule-based optimizer.  Each subsystem has its own specification     *)
(* (SpecLimit, SpecSort, SpecAgg, SpecDB, SpecOpt) over the shared state;  *)
(* the state of the subsystems a specification does not exercise stays at  *)
(* its idle value.                                                         *)
(***************************************************************************)
EXTENDS Integers, Sequences, FiniteSets, TLC

(* ------------------------------ bounds --------------------------------- *)
\* longest child sequence fed to a physical operator
MaxRows == 3
\* largest OFFSET tried
MaxOffset == 2
\* largest LIMIT tried
MaxLimit == 2
\* largest column value tried
MaxVal == 2
\* statements the threads issue in one run
MaxStatements == 3
\* passes of one stage of the optimizer over its rules
MaxPasses == 6

\* lookups the catalog serves in one run
MaxLookups == 3

\* records a csv file holds beyond the ones the schema is inferred from
MaxTail == 3
\* characters of the longest number text handed to a cast
MaxText == 3
\* fields of the widest schema an aggregator is resolved against
MaxFields == 2
\* operators of the longest pipeline above a scan
MaxDepth == 2
\* calls of next() on the root of a pipeline
MaxCalls == 5

(* ------------------------------- state --------------------------------- *)
VARIABLES
    overflowChecks,   \* build profile: TRUE = arithmetic overflow panics, FALSE = it wraps
    \* Limit: child rows, offset, limit, position counter, child cursor, rows emitted, None seen
    limChild, limOffset, limLimit, limPos, limChildPos, limOut, limEnded,
    \* Sort: child rows, options, acc_buffer, output_buffer, child cursor, rows emitted, None seen, outcome
    srtChild, srtOpts, srtAcc, srtOutBuf, srtChildPos, srtOut, srtEnded, srtStatus,
    \* HashAggregator: child rows, grouping_exprs, aggregator_exprs, aggregators, buffers, iter,
    \* child cursor, the items iter handed to try_push, rows emitted, None seen, outcome
    aggChild, aggGroupingExprs, aggAggregatorExprs, aggAggregators, aggBuffers, aggIter,
    aggChildPos, aggPushed, aggOut, aggEnded, aggStatus,
    \* the in-memory table behind its RwLock: data, threads holding a read guard, thread holding
    \* the write guard (0 for none)
    tblData, tblReaders, tblWriter,
    \* per thread: position in its statement, converted rows of its INSERT, the scan's snapshot,
    \* the scan's next index, rows its SELECT has produced, outcome of its last statement
    dbPc, dbPending, scanSnapshot, scanNext, selOut, dbResult,
    \* statements started so far
    dbStatements,
    \* history: the VALUES rows (as written in the statements) of the INSERTs that returned Ok, in
    \* the order they returned; per thread the rows its INSERT is writing, the history when its
    \* SELECT began, and the history when its scan's setup() returned
    dbLog, dbPendingText, selLogAtStart, scanLogAtSetup,
    \* the optimizer: the plan handed to both runs, the run under way, per run the plan so far,
    \* the outcome and the error; of the run under way the stage, the rule within the stage,
    \* the changed flag and the passes made over the stage
    optInput, optRun, optPlan, optStatus, optErr, optStage, optRule, optChanged, optPasses,
    \* the catalog: the tables map (name to table, 0 for no entry), tables created so far,
    \* lookups started so far; per thread the position in try_get_table, the name looked up,
    \* the CsvTable it has constructed and the outcome of its last lookup
    catTables, catCreated, catLookups, catPc, catName, catNew, catResult,
    \* a query over a csv file: the records of the file after the header, the data types of
    \* the CsvTable's schema, the stage the query is in, records the scan's reader has
    \* consumed, rows the scan has emitted, the error that ended the query and the stage
    \* that returned it
    csvRecords, csvTypes, csvPc, csvPos, csvOut, csvErr, csvErrStage,
    \* a call of Interpreter::eval: the expression, the row, whether it has returned, its result
    evExpr, evRow, evDone, evResult,
    \* a call of a transform of Expression: the expression, the visitor, the traversal called
    \* ("" before the call), its result and the nodes the visitor was called on, in order
    trExpr, trVisitor, trCalled, trResult, trVisits,
    \* a call of Literal::cast_or_maintain_precision on an unresolved number: the characters
    \* of the number, the data type asked for, whether it has returned, its result
    castText, castType, castDone, castResult,
    \* a call of Aggregator::resolve_expr: the names of the inbound schema's fields, the
    \* aggregator (as built by new), whether the call has returned, whether it returned Ok
    raFields, raAgg, raDone, raOk,
    \* the locks of one CrackDB: per lock the threads holding a read guard and the thread
    \* holding the write guard (0 for none); per thread the lock operations its statement
    \* has still to make and whether its last lookup of the csv path missed; whether the csv
    \* path is in the tables map; statements started so far; whether a waiting writer
    \* keeps new readers out (the policy of RwLock is the platform's)
    lkReaders, lkWriter, lkProg, lkMiss, lkInstalled, lkStarted, lkWriterFirst,
    \* a pipeline of physical plans: the rows of the scanned table, the operators above
    \* the scan (the last is the root), the state of every node (1 is the scan) with the
    \* record of its calls, the status of the pipeline, the calls of next() on the root
    \* so far, and the rows the root returned
    plTable, plPlan, plState, plStatus, plCalls, plOut

limVars == <<limChild, limOffset, limLimit, limPos, limChildPos, limOut, limEnded>>
srtVars == <<srtChild, srtOpts, srtAcc, srtOutBuf, srtChildPos, srtOut, srtEnded, srtStatus>>
aggVars == <<aggChild, aggGroupingExprs, aggAggregatorExprs, aggAggregators, aggBuffers, aggIter,
             aggChildPos, aggPushed, aggOut, aggEnded, aggStatus>>
dbVars == <<tblData, tblReaders, tblWriter, dbPc, dbPending, scanSnapshot, scanNext, selOut,
            dbResult, dbStatements, dbLog, dbPendingText, selLogAtStart, scanLogAtSetup>>
optVars == <<optInput, optRun, optPlan, optStatus, optErr, optStage, optRule, optChanged, optPasses>>
catVars == <<catTables, catCreated, catLookups, catPc, catName, catNew, catResult>>
csvVars == <<csvRecords, csvTypes, csvPc, csvPos, csvOut, csvErr, csvErrStage>>
evVars == <<evExpr, evRow, evDone, evResult>>
trVars == <<trExpr, trVisitor, trCalled, trResult, trVisits>>
castVars == <<castText, castType, castDone, castResult>>
raVars == <<raFields, raAgg, raDone, raOk>>
lkVars == <<lkReaders, lkWriter, lkProg, lkMiss, lkInstalled, lkStarted, lkWriterFirst>>
plVars == <<plTable, plPlan, plState, plStatus, plCalls, plOut>>
vars == <<overflowChecks, limVars, srtVars, aggVars, dbVars, optVars, catVars, csvVars, evVars, trVars, castVars, raVars, lkVars, plVars>>

\* what the actions of one subsystem leave alone
notLimVars == <<overflowChecks, srtVars, aggVars, dbVars, optVars, catVars, csvVars, evVars, trVars, castVars, raVars, lkVars, plVars>>
notSrtVars == <<overflowChecks, limVars, aggVars, dbVars, optVars, catVars, csvVars, evVars, trVars, castVars, raVars, lkVars, plVars>>
notAggVars == <<overflowChecks, limVars, srtVars, dbVars, optVars, catVars, csvVars, evVars, trVars, castVars, raVars, lkVars, plVars>>
notDbVars == <<overflowChecks, limVars, srtVars, aggVars, optVars, catVars, csvVars, evVars, trVars, castVars, raVars, lkVars, plVars>>
notOptVars == <<overflowChecks, limVars, srtVars, aggVars, dbVars, catVars, csvVars, evVars, trVars, castVars, raVars, lkVars, plVars>>
notCatVars == <<overflowChecks, limVars, srtVars, aggVars, dbVars, optVars, csvVars, evVars, trVars, castVars, raVars, lkVars, plVars>>
notCsvVars == <<overflowChecks, limVars, srtVars, aggVars, dbVars, optVars, catVars, evVars, trVars, castVars, raVars, lkVars, plVars>>
notEvVars == <<overflowChecks, limVars, srtVars, aggVars, dbVars, optVars, catVars, csvVars, trVars, castVars, raVars, lkVars, plVars>>
notTrVars == <<overflowChecks, limVars, srtVars, aggVars, dbVars, optVars, catVars, csvVars, evVars, castVars, raVars, lkVars, plVars>>
notCastVars == <<overflowChecks, limVars, srtVars, aggVars, dbVars, optVars, catVars, csvVars, evVars, trVars, raVars, lkVars, plVars>>
notRaVars == <<overflowChecks, limVars, srtVars, aggVars, dbVars, optVars, catVars, csvVars, evVars, trVars, castVars, lkVars, plVars>>
notLkVars == <<overflowChecks, limVars, srtVars, aggVars, dbVars, optVars, catVars, csvVars, evVars, trVars, castVars, raVars, plVars>>
notPlVars == <<overflowChecks, limVars, srtVars, aggVars, dbVars, optVars, catVars, csvVars, evVars, trVars, castVars, raVars, lkVars>>

(* ------------------------------ helpers -------------------------------- *)
Min2(a, b) == IF a <= b THEN a ELSE b

Range(s) == {s[i] : i \in 1..Len(s)}

IsPrefix(s, t) == Len(s) <= Len(t) /\ SubSeq(t, 1, Len(s)) = s

\* all sequences over S of length at most n
SeqsUpTo(S, n) == UNION {[1..k -> S] : k \in 0..n}

(* ------------------------------ literals ------------------------------- *)
\* Literal: a tag, an integer payload (floats are kept in tenths, Bool as 0/1)
\* and a text payload (the characters of strings and of unresolved literals).
Lit(tag, val, text) == [tag |-> tag, val |-> val, text |-> text]

FloatScale == 10

Int32Lit(n) == Lit("Int32", n, <<>>)
UInt64Lit(n) == Lit("UInt64", n, <<>>)
Float64Lit(tenths) == Lit("Float64", tenths, <<>>)
BoolLit(b) == Lit("Bool", IF b THEN 1 ELSE 0, <<>>)
StringLit(text) == Lit("String", 0, text)
NullLit == Lit("Null", 0, <<>>)

IntegerTags == {"UInt8", "UInt16", "UInt32", "UInt64", "Int8", "Int16", "Int32", "Int64"}
FloatTags == {"Float32", "Float64"}
NumericTags == IntegerTags \cup FloatTags
PayloadTags == NumericTags \cup {"UnResolvedNumber", "UnResolvedString", "Bool", "String", "DateTime"}

\* impl PartialEq for Literal: same tag and equal payload; tags without a
\* compared payload (Null) are equal when the discriminants are.
LiteralEqByDiscriminant(a, b) == a.tag = b.tag

LiteralEq(a, b) ==
    IF a.tag = b.tag /\ a.tag \in PayloadTags
    THEN a.val = b.val /\ a.text = b.text
    ELSE a.tag = b.tag

\* Vec<Literal> equality: equal length and position-wise equal
KeyEq(k1, k2) ==
    /\ Len(k1) = Len(k2)
    /\ \A i \in 1..Len(k1) : LiteralEq(k1[i], k2[i])

\* Literal::data_type
LiteralDataType(l) ==
    CASE l.tag \in {"UnResolvedNumber", "UnResolvedString", "Null"} -> "Unknown"
      [] l.tag = "Bool" -> "Boolean"
      [] OTHER -> l.tag

\* results of fallible calls on literals
OkLit(l) == [ok |-> TRUE, v |-> l, err |-> "none"]
ErrLit(kind) == [ok |-> FALSE, v |-> NullLit, err |-> kind]

\* Literal::as_bool
AsBool(l) == IF l.tag = "Bool" THEN OkLit(l) ELSE ErrLit("Unknown")

(* ----------------------------- data types ------------------------------ *)
\* DataType::is_integer
IsInteger(dt) == dt \in IntegerTags

\* DataType::zero
Zero(dt) == IF dt \in NumericTags THEN OkLit(Lit(dt, 0, <<>>)) ELSE ErrLit("Unknown")

\* the limits of the integer widths; the limits of the 64-bit widths and of
\* UInt32 lie outside the model's integers and are cut to them
WidthMin(dt) ==
    CASE dt = "Int8" -> -128
      [] dt = "Int16" -> -32768
      [] dt \in {"UInt8", "UInt16", "UInt32", "UInt64"} -> 0
      [] OTHER -> -2147483647 - 1
WidthMax(dt) ==
    CASE dt = "Int8" -> 127
      [] dt = "UInt8" -> 255
      [] dt = "Int16" -> 32767
      [] dt = "UInt16" -> 65535
      [] OTHER -> 2147483647

\* DataType::max_value / DataType::min_value
MaxValue(dt) == IF dt \in NumericTags THEN OkLit(Lit(dt, WidthMax(dt), <<>>)) ELSE ErrLit("Unknown")
MinValue(dt) == IF dt \in NumericTags THEN OkLit(Lit(dt, WidthMin(dt), <<>>)) ELSE ErrLit("Unknown")

(* ------------------------------- rows ---------------------------------- *)
\* Row::get_field
GetField(row, index) ==
    IF index >= Len(row) THEN ErrLit("Unknown") ELSE OkLit(row[index + 1])

\* Row::concat: the view of left followed by right
Concat(left, right) == left \o right

\* Row::update_field on a simple row
UpdateField(row, index, l) == [row EXCEPT ![index + 1] = l]

(* ---------------------------- expressions ------------------------------ *)
\* Expression: one record shape for every variant.  name holds the field
\* name, the alias, the operator or the function name; args the children.
Expr(kind, name, index, dt, lit, args) ==
    [kind |-> kind, name |-> name, index |-> index, dt |-> dt, lit |-> lit, args |-> args]

LiteralExpr(l) == Expr("Literal", "", 0, "Unknown", l, <<>>)
UnResolvedFieldRef(name) == Expr("UnResolvedFieldRef", name, 0, "Unknown", NullLit, <<>>)
FieldRef(name, index, dt) == Expr("FieldRef", name, index, dt, NullLit, <<>>)
Alias(alias, child) == Expr("Alias", alias, 0, "Unknown", NullLit, <<child>>)
BinaryOp(op, left, right) == Expr("BinaryOp", op, 0, "Unknown", NullLit, <<left, right>>)
UnaryOp(op, input) == Expr("UnaryOp", op, 0, "Unknown", NullLit, <<input>>)
UnResolvedFunction(name, args) == Expr("UnResolvedFunction", name, 0, "Unknown", NullLit, args)
Function(name, arg) == Expr("Function", name, 0, "Unknown", NullLit, <<arg>>)
Wildcard == Expr("Wildcard", "", 0, "Unknown", NullLit, <<>>)

\* BinaryOp::is_boolean_op
IsBooleanOp(op) == op \in {"Gt", "Gte", "Eq", "Lt", "Lte", "And", "Or"}

(* ---------------------------- interpreter ------------------------------ *)
\* the value an overflowing integer operation leaves in a build without
\* overflow checks: the exact result reduced into the width's range
Wrap(tag, v) ==
    IF tag \in {"Int8", "UInt8", "Int16", "UInt16"}
    THEN ((v - WidthMin(tag)) % (WidthMax(tag) - WidthMin(tag) + 1)) + WidthMin(tag)
    ELSE IF v < 0 THEN (v + WidthMax(tag)) + 1
    ELSE v

Fits(tag, v) == WidthMin(tag) <= v /\ v <= WidthMax(tag)

\* l + r, l - r, l * r on a primitive integer: the exact result when it fits,
\* else a panic (overflow checks on) or the wrapped value (checks off)
IntResult(tag, v) ==
    IF Fits(tag, v) THEN OkLit(Lit(tag, v, <<>>))
    ELSE IF overflowChecks THEN ErrLit("Panic")
    ELSE OkLit(Lit(tag, Wrap(tag, v), <<>>))

\* integer division of Rust: truncation toward zero
TruncDiv(l, r) ==
    IF (l >= 0) = (r > 0) THEN (IF l >= 0 THEN l \div r ELSE (-l) \div (-r))
    ELSE -((IF l >= 0 THEN l ELSE -l) \div (IF r >= 0 THEN r ELSE -r))

SameNumericTag(l, r) == l.tag = r.tag /\ l.tag \in NumericTags

\* plus_impl
PlusImpl(l, r) ==
    IF ~SameNumericTag(l, r) THEN ErrLit("InterpretingError")
    ELSE IF l.tag \in FloatTags THEN OkLit(Lit(l.tag, l.val + r.val, <<>>))
    ELSE IntResult(l.tag, l.val + r.val)

\* minus_impl
MinusImpl(l, r) ==
    IF ~SameNumericTag(l, r) THEN ErrLit("InterpretingError")
    ELSE IF l.tag \in FloatTags THEN OkLit(Lit(l.tag, l.val - r.val, <<>>))
    ELSE IntResult(l.tag, l.val - r.val)

\* multiply_impl (floats are kept in tenths)
MultiplyImpl(l, r) ==
    IF ~SameNumericTag(l, r) THEN ErrLit("InterpretingError")
    ELSE IF l.tag \in FloatTags THEN OkLit(Lit(l.tag, TruncDiv(l.val * r.val, FloatScale), <<>>))
    ELSE IntResult(l.tag, l.val * r.val)

\* divide_impl: an integer division by zero panics in every build; a float
\* division by zero yields an infinity, which the model does not represent
DivideImpl(l, r) ==
    IF ~SameNumericTag(l, r) THEN ErrLit("InterpretingError")
    ELSE IF r.val = 0 THEN ErrLit("Panic")
    ELSE IF l.tag \in FloatTags THEN OkLit(Lit(l.tag, TruncDiv(l.val * FloatScale, r.val), <<>>))
    ELSE IF ~Fits(l.tag, TruncDiv(l.val, r.val)) THEN ErrLit("Panic")
    ELSE OkLit(Lit(l.tag, TruncDiv(l.val, r.val), <<>>))

\* negative_impl
NegativeImpl(l) ==
    IF l.tag \in FloatTags THEN OkLit(Lit(l.tag, -l.val, <<>>))
    ELSE IF l.tag \in {"Int8", "Int16", "Int32", "Int64"} THEN IntResult(l.tag, -l.val)
    ELSE ErrLit("InterpretingError")

\* gt_impl, gte_impl, eq_impl, lt_impl, lte_impl
CompareImpl(op, l, r) ==
    IF ~SameNumericTag(l, r) THEN ErrLit("InterpretingError")
    ELSE OkLit(BoolLit(CASE op = "Gt" -> l.val > r.val
                         [] op = "Gte" -> l.val >= r.val
                         [] op = "Eq" -> l.val = r.val
                         [] op = "Lt" -> l.val < r.val
                         [] op = "Lte" -> l.val <= r.val))

\* and_impl, or_impl
LogicImpl(op, l, r) ==
    IF l.tag = "Bool" /\ r.tag = "Bool"
    THEN OkLit(BoolLit(IF op = "And" THEN l.val = 1 /\ r.val = 1 ELSE l.val = 1 \/ r.val = 1))
    ELSE ErrLit("InterpretingError")

\* not_impl
NotImpl(l) == IF l.tag = "Bool" THEN OkLit(BoolLit(l.val = 0)) ELSE ErrLit("InterpretingError")

\* max_impl, min_impl: the larger / the smaller operand of two of one numeric tag
MaxImpl(l, r) ==
    IF ~SameNumericTag(l, r) THEN ErrLit("InterpretingError")
    ELSE OkLit(IF l.val >= r.val THEN l ELSE r)
MinImpl(l, r) ==
    IF ~SameNumericTag(l, r) THEN ErrLit("InterpretingError")
    ELSE OkLit(IF l.val <= r.val THEN l ELSE r)

\* the order of the characters the model's strings are made of
CharRank(c) ==
    CASE c = "." -> 0 [] c = "-" -> 1
      [] c = "0" -> 10 [] c = "1" -> 11 [] c = "2" -> 12 [] c = "3" -> 13 [] c = "4" -> 14
      [] c = "5" -> 15 [] c = "6" -> 16 [] c = "7" -> 17 [] c = "8" -> 18 [] c = "9" -> 19
      [] OTHER -> 30

RECURSIVE TextCmp(_, _)
\* Ord of str: lexicographic, a proper prefix first
TextCmp(s, t) ==
    IF s = <<>> THEN (IF t = <<>> THEN "Equal" ELSE "Less")
    ELSE IF t = <<>> THEN "Greater"
    ELSE IF CharRank(Head(s)) < CharRank(Head(t)) THEN "Less"
    ELSE IF CharRank(Head(s)) > CharRank(Head(t)) THEN "Greater"
    ELSE TextCmp(Tail(s), Tail(t))

\* cmp_impl: the Ordering of two values of one tag (numbers, strings)
CmpImpl(l, r) ==
    IF SameNumericTag(l, r)
    THEN (IF l.val < r.val THEN "Less" ELSE IF l.val > r.val THEN "Greater" ELSE "Equal")
    ELSE IF l.tag = r.tag /\ l.tag \in {"String", "DateTime"} THEN TextCmp(l.text, r.text)
    ELSE "Err"

BinaryImpl(op, l, r) ==
    CASE op = "Plus" -> PlusImpl(l, r)
      [] op = "Minus" -> MinusImpl(l, r)
      [] op = "Divide" -> DivideImpl(l, r)
      [] op = "Multiply" -> MultiplyImpl(l, r)
      [] op \in {"Gt", "Gte", "Eq", "Lt", "Lte"} -> CompareImpl(op, l, r)
      [] op \in {"And", "Or"} -> LogicImpl(op, l, r)
      [] op = "Max" -> MaxImpl(l, r)
      [] op = "Min" -> MinImpl(l, r)

RECURSIVE Eval(_, _)
\* Interpreter::eval
Eval(expr, row) ==
    CASE expr.kind = "Literal" -> OkLit(expr.lit)
      [] expr.kind = "UnResolvedFieldRef" -> ErrLit("Unknown")
      [] expr.kind = "FieldRef" -> GetField(row, expr.index)
      [] expr.kind = "BinaryOp" ->
            LET l == Eval(expr.args[1], row)
            IN  IF ~l.ok THEN l
                ELSE LET r == Eval(expr.args[2], row)
                     IN  IF ~r.ok THEN r ELSE BinaryImpl(expr.name, l.v, r.v)
      [] expr.kind = "UnaryOp" ->
            LET i == Eval(expr.args[1], row)
            IN  IF ~i.ok THEN i
                ELSE IF expr.name = "Not" THEN NotImpl(i.v) ELSE NegativeImpl(i.v)
      [] expr.kind = "Alias" -> Eval(expr.args[1], row)
      [] expr.kind = "UnResolvedFunction" -> ErrLit("InterpretingError")
      [] expr.kind = "Function" -> ErrLit("Panic")
      [] expr.kind = "Wildcard" -> ErrLit("Panic")

(* ------------------------------- Limit --------------------------------- *)
\* LimitOption: All, or Num(n)
LimitAll == [all |-> TRUE, n |-> 0]
LimitNum(n) == [all |-> FALSE, n |-> n]

HasNextInclusive(pos, offset, limit) ==
    pos >= offset /\ (limit.all \/ pos <= offset + limit.n)

\* Limit::has_next
HasNext(pos, offset, limit) ==
    pos >= offset /\ (limit.all \/ pos < offset + limit.n)

RECURSIVE LimitLoop(_, _, _, _, _)
\* the loop of Limit::next over child.next(): the position counter, the
\* child's cursor and the row returned (none at the end of the child or
\* once has_next fails)
LimitLoop(child, cpos, pos, offset, limit) ==
    IF cpos >= Len(child) THEN [pos |-> pos, cpos |-> cpos, some |-> FALSE, row |-> <<>>]
    ELSE IF pos < offset THEN LimitLoop(child, cpos + 1, pos + 1, offset, limit)
    ELSE IF HasNext(pos, offset, limit)
         THEN [pos |-> pos + 1, cpos |-> cpos + 1, some |-> TRUE, row |-> child[cpos + 1]]
         ELSE [pos |-> pos, cpos |-> cpos + 1, some |-> FALSE, row |-> <<>>]

\* rows labelled by their position in the child
NumberedRows(n) == [i \in 1..n |-> <<Int32Lit(i)>>]

LimitInit ==
    /\ limChild \in {NumberedRows(n) : n \in 0..MaxRows}
    /\ limOffset \in 0..MaxOffset
    /\ limLimit \in {LimitAll} \cup {LimitNum(n) : n \in 0..MaxLimit}
    /\ limPos = 0
    /\ limChildPos = 0
    /\ limOut = <<>>
    /\ limEnded = FALSE

LimitIdle ==
    /\ limChild = <<>> /\ limOffset = 0 /\ limLimit = LimitAll /\ limPos = 0
    /\ limChildPos = 0 /\ limOut = <<>> /\ limEnded = FALSE

\* Limit::next
LimitNext ==
    LET r == LimitLoop(limChild, limChildPos, limPos, limOffset, limLimit)
    IN  /\ limPos' = r.pos
        /\ limChildPos' = r.cpos
        /\ limOut' = IF r.some THEN Append(limOut, r.row) ELSE limOut
        /\ limEnded' = (limEnded \/ ~r.some)
        /\ UNCHANGED <<limChild, limOffset, limLimit>>
        /\ UNCHANGED notLimVars

(* -------------------------------- Sort --------------------------------- *)
\* SortOption
SortOption(expr, asc) == [expr |-> expr, asc |-> asc]

SortIgnoringDirection(option, left, right) ==
    LET lval == Eval(option.expr, left)
        rval == Eval(option.expr, right)
    IN  IF ~lval.ok \/ ~rval.ok THEN "Err" ELSE CmpImpl(lval.v, rval.v)

\* Sort::sort: the Ordering of two rows under one option, "Err" for Err(_)
SortCmp(option, left, right) ==
    LET lval == Eval(option.expr, left)
        rval == Eval(option.expr, right)
    IN  IF ~lval.ok \/ ~rval.ok THEN "Err"
        ELSE IF option.asc THEN CmpImpl(lval.v, rval.v) ELSE CmpImpl(rval.v, lval.v)

RECURSIVE SortCompare(_, _, _)
\* the closure handed to sort_by: the options are tried in order and the
\* first one that is not Equal decides; unwrap() on an Err panics
SortCompare(options, left, right) ==
    IF options = <<>> THEN "Equal"
    ELSE LET o == SortCmp(Head(options), left, right)
         IN  IF o = "Err" THEN "Panic"
             ELSE IF o # "Equal" THEN o
             ELSE SortCompare(Tail(options), left, right)

RECURSIVE InsertTail(_, _, _)
\* one step of the stable insertion sort slice::sort_by runs on short
\* slices: the new row moves left while it compares Less than its neighbour
InsertTail(options, sorted, row) ==
    IF sorted.panic THEN sorted
    ELSE IF sorted.rows = <<>> THEN [panic |-> FALSE, rows |-> <<row>>]
    ELSE LET last == sorted.rows[Len(sorted.rows)]
             o == SortCompare(options, row, last)
         IN  IF o = "Panic" THEN [panic |-> TRUE, rows |-> <<>>]
             ELSE IF o = "Less"
                  THEN LET rest == InsertTail(options,
                                       [panic |-> FALSE,
                                        rows |-> SubSeq(sorted.rows, 1, Len(sorted.rows) - 1)],
                                       row)
                       IN  IF rest.panic THEN rest
                           ELSE [panic |-> FALSE, rows |-> Append(rest.rows, last)]
                  ELSE [panic |-> FALSE, rows |-> Append(sorted.rows, row)]

RECURSIVE SortBy(_, _, _)
\* buffer.sort_by(..): rows[1..n] sorted, the rest inserted one by one
SortBy(options, rows, n) ==
    IF n = 0 THEN [panic |-> FALSE, rows |-> <<>>]
    ELSE InsertTail(options, SortBy(options, rows, n - 1), rows[n])

NoRows == [some |-> FALSE, rows |-> <<>>]
SomeRows(rows) == [some |-> TRUE, rows |-> rows]

\* the rows fed to Sort: two Int32 key columns and the row's child position
SortRow(a, b, id) == <<Int32Lit(a), Int32Lit(b), Int32Lit(id)>>
SortChildren ==
    UNION {{[i \in 1..n |-> SortRow(f[i][1], f[i][2], i)] :
                f \in [1..n -> (1..MaxVal) \X (1..MaxVal)]} : n \in 0..MaxRows}

SortKeys == {FieldRef("a", 0, "Int32"), FieldRef("b", 1, "Int32")}
SortOptionLists ==
    {<<SortOption(e, asc)>> : e \in SortKeys, asc \in BOOLEAN}
    \cup {<<SortOption(FieldRef("a", 0, "Int32"), asc1), SortOption(FieldRef("b", 1, "Int32"), asc2)>> :
            asc1 \in BOOLEAN, asc2 \in BOOLEAN}

\* Sort::new
SortInit ==
    /\ srtChild \in SortChildren
    /\ srtOpts \in SortOptionLists
    /\ srtAcc = SomeRows(<<>>)
    /\ srtOutBuf = NoRows
    /\ srtChildPos = 0
    /\ srtOut = <<>>
    /\ srtEnded = FALSE
    /\ srtStatus = "ok"

\* rows whose sort column holds a value of another tag or Null, sorted by the
\* column or by the column plus one
SortMixedValues == {Int32Lit(1), Int32Lit(2), NullLit, StringLit(<<"x">>)}
SortMixedChildren ==
    UNION {{[i \in 1..n |-> <<f[i], Int32Lit(1), Int32Lit(i)>>] : f \in [1..n -> SortMixedValues]} :
              n \in 0..MaxRows}
SortMixedOptionLists ==
    {<<SortOption(FieldRef("a", 0, "Int32"), TRUE)>>,
     <<SortOption(BinaryOp("Plus", FieldRef("a", 0, "Int32"), LiteralExpr(Int32Lit(1))), TRUE)>>}

\* Sort::new over such a child
SortMixedInit ==
    /\ srtChild \in SortMixedChildren
    /\ srtOpts \in SortMixedOptionLists
    /\ srtAcc = SomeRows(<<>>)
    /\ srtOutBuf = NoRows
    /\ srtChildPos = 0
    /\ srtOut = <<>>
    /\ srtEnded = FALSE
    /\ srtStatus = "ok"

SortIdle ==
    /\ srtChild = <<>> /\ srtOpts = <<>> /\ srtAcc = NoRows /\ srtOutBuf = NoRows
    /\ srtChildPos = 0 /\ srtOut = <<>> /\ srtEnded = FALSE /\ srtStatus = "ok"

\* Sort::next = try_pull (drain the child, sort, switch to the push stage)
\* followed by try_push (hand out the next buffered row)
SortNext ==
    /\ srtStatus = "ok"
    /\ LET drained == IF srtAcc.some
                      THEN srtAcc.rows \o SubSeq(srtChild, srtChildPos + 1, Len(srtChild))
                      ELSE <<>>
           sorted == IF srtAcc.some THEN SortBy(srtOpts, drained, Len(drained))
                     ELSE [panic |-> FALSE, rows |-> <<>>]
           buf == IF srtAcc.some THEN SomeRows(sorted.rows) ELSE srtOutBuf
       IN  IF sorted.panic
           THEN /\ srtStatus' = "panic"
                /\ srtChildPos' = Len(srtChild)
                /\ srtAcc' = SomeRows(drained)
                /\ UNCHANGED <<srtOutBuf, srtOut, srtEnded>>
           ELSE IF ~buf.some
           THEN /\ srtStatus' = "err"
                /\ UNCHANGED <<srtChildPos, srtAcc, srtOutBuf, srtOut, srtEnded>>
           ELSE /\ srtChildPos' = IF srtAcc.some THEN Len(srtChild) ELSE srtChildPos
                /\ srtAcc' = NoRows
                /\ IF buf.rows = <<>>
                   THEN /\ srtOutBuf' = buf
                        /\ srtEnded' = TRUE
                        /\ UNCHANGED srtOut
                   ELSE /\ srtOutBuf' = SomeRows(Tail(buf.rows))
                        /\ srtOut' = Append(srtOut, Head(buf.rows))
                        /\ UNCHANGED srtEnded
                /\ UNCHANGED srtStatus
    /\ UNCHANGED <<srtChild, srtOpts>>
    /\ UNCHANGED notSrtVars

(* ------------------- expressions: display and types -------------------- *)
RECURSIVE JoinChars(_)
\* the String made of a sequence of characters
JoinChars(cs) == IF cs = <<>> THEN "" ELSE Head(cs) \o JoinChars(Tail(cs))

\* Display of a float kept in tenths: 30.0 prints as "30", 1.5 as "1.5"
FloatToString(t) ==
    LET a == IF t < 0 THEN -t ELSE t
        sign == IF t < 0 THEN "-" ELSE ""
    IN  IF a % FloatScale = 0 THEN sign \o ToString(a \div FloatScale)
        ELSE sign \o ToString(a \div FloatScale) \o "." \o ToString(a % FloatScale)

\* impl Display for Literal
LiteralToString(l) ==
    CASE l.tag \in {"UnResolvedNumber", "UnResolvedString", "String", "DateTime"} -> JoinChars(l.text)
      [] l.tag \in IntegerTags -> ToString(l.val)
      [] l.tag \in FloatTags -> FloatToString(l.val)
      [] l.tag = "Bool" -> (IF l.val = 1 THEN "true" ELSE "false")
      [] OTHER -> "null"

\* impl Display for BinaryOp
BinaryOpToString(op) ==
    CASE op = "Plus" -> "+" [] op = "Minus" -> "-" [] op = "Divide" -> "/"
      [] op = "Multiply" -> "*" [] op = "Gt" -> ">" [] op = "Gte" -> ">="
      [] op = "Eq" -> "=" [] op = "Lt" -> "<" [] op = "Lte" -> "<="
      [] op = "And" -> "AND" [] op = "Or" -> "OR" [] op = "Max" -> "MAX"
      [] OTHER -> "MIN"

\* impl Display for UnaryOp
UnaryOpToString(op) == IF op = "Not" THEN "NOT" ELSE "-"

RECURSIVE ExprToString(_)
RECURSIVE ArgsToString(_)
\* args.iter().map(to_string).collect().join(", ")
ArgsToString(args) ==
    IF args = <<>> THEN ""
    ELSE IF Len(args) = 1 THEN ExprToString(args[1])
    ELSE ExprToString(args[1]) \o ", " \o ArgsToString(Tail(args))

\* impl Display for Expression (Function: Function::to_expr_string)
ExprToString(e) ==
    CASE e.kind = "Literal" -> LiteralToString(e.lit)
      [] e.kind \in {"UnResolvedFieldRef", "FieldRef", "Alias"} -> e.name
      [] e.kind = "BinaryOp" ->
            ExprToString(e.args[1]) \o "_" \o BinaryOpToString(e.name) \o "_" \o ExprToString(e.args[2])
      [] e.kind = "UnaryOp" -> UnaryOpToString(e.name) \o "_" \o ExprToString(e.args[1])
      [] e.kind \in {"UnResolvedFunction", "Function"} -> e.name \o "(" \o ArgsToString(e.args) \o ")"
      [] OTHER -> "*"

RECURSIVE DataTypeOf(_)
\* Expression::data_type (Function: the data type extractors of the
\* registry: sum, max, min take the type of the argument)
DataTypeOf(e) ==
    CASE e.kind = "Literal" -> LiteralDataType(e.lit)
      [] e.kind = "FieldRef" -> e.dt
      [] e.kind = "BinaryOp" -> (IF IsBooleanOp(e.name) THEN "Boolean" ELSE DataTypeOf(e.args[1]))
      [] e.kind \in {"UnaryOp", "Alias"} -> DataTypeOf(e.args[1])
      [] e.kind = "Function" ->
            (CASE e.name = "avg" -> "Float64"
               [] e.name = "count" -> "UInt64"
               [] OTHER -> DataTypeOf(e.args[1]))
      [] OTHER -> "Unknown"

RECURSIVE SematicId(_)
\* Expression::sematic_id
SematicId(e) ==
    CASE e.kind = "Literal" -> "literal_" \o LiteralToString(e.lit) \o "#" \o LiteralDataType(e.lit)
      [] e.kind = "UnResolvedFieldRef" -> "unresolved_ref_#" \o e.name
      [] e.kind = "FieldRef" -> "ref_" \o e.name \o "#" \o e.dt
      [] e.kind = "Alias" -> SematicId(e.args[1])
      [] e.kind = "BinaryOp" ->
            SematicId(e.args[1]) \o "_" \o BinaryOpToString(e.name) \o "_" \o SematicId(e.args[2])
      [] e.kind = "UnaryOp" -> UnaryOpToString(e.name) \o "_" \o SematicId(e.args[1])
      [] OTHER -> ExprToString(e)

(* ------------------------------ schemas -------------------------------- *)
\* FieldInfo
FieldInfo(name, dt) == [name |-> name, dt |-> dt]

\* RelationSchema::merge
Merge(left, right) == left \o right

\* the FieldInfo each output expression of a node gives
SchemaOfExprs(exprs) == [i \in 1..Len(exprs) |-> FieldInfo(ExprToString(exprs[i]), DataTypeOf(exprs[i]))]

\* aggregator_schema: the groupings, the aggregators appended after them
AggregatorSchema(groupings, aggregators) == SchemaOfExprs(groupings \o aggregators)

\* fields.iter().position(|f| f.name().eq(name)), 0 when there is none
RECURSIVE Position(_, _, _)
Position(fields, name, from) ==
    IF from > Len(fields) THEN 0
    ELSE IF fields[from].name = name THEN from
    ELSE Position(fields, name, from + 1)

(* --------------------------- number parsing ---------------------------- *)
DigitVal(c) ==
    CASE c = "0" -> 0 [] c = "1" -> 1 [] c = "2" -> 2 [] c = "3" -> 3 [] c = "4" -> 4
      [] c = "5" -> 5 [] c = "6" -> 6 [] c = "7" -> 7 [] c = "8" -> 8 [] c = "9" -> 9
      [] OTHER -> -1

AllDigits(cs) == \A i \in 1..Len(cs) : DigitVal(cs[i]) >= 0

RECURSIVE DigitsValue(_, _)
\* the number a run of decimal digits denotes
DigitsValue(cs, acc) ==
    IF cs = <<>> THEN acc ELSE DigitsValue(Tail(cs), acc * 10 + DigitVal(Head(cs)))

OkNum(n) == [ok |-> TRUE, n |-> n]
ErrNum == [ok |-> FALSE, n |-> 0]

\* str::parse::<u64>: an optional '+' and at least one digit
ParseUnsigned(cs) ==
    LET body == IF cs # <<>> /\ Head(cs) = "+" THEN Tail(cs) ELSE cs
    IN  IF body = <<>> \/ ~AllDigits(body) THEN ErrNum ELSE OkNum(DigitsValue(body, 0))

\* str::parse::<i64>: an optional sign and at least one digit
ParseSigned(cs) ==
    LET neg == cs # <<>> /\ Head(cs) = "-"
        body == IF cs # <<>> /\ Head(cs) \in {"+", "-"} THEN Tail(cs) ELSE cs
    IN  IF body = <<>> \/ ~AllDigits(body) THEN ErrNum
        ELSE OkNum(IF neg THEN -DigitsValue(body, 0) ELSE DigitsValue(body, 0))

\* index of the first '.', 0 when there is none
RECURSIVE DotIndex(_, _)
DotIndex(cs, from) ==
    IF from > Len(cs) THEN 0 ELSE IF cs[from] = "." THEN from ELSE DotIndex(cs, from + 1)

\* str::parse::<f64> for plain decimal notation, the value in tenths
ParseFloat(cs) ==
    LET neg == cs # <<>> /\ Head(cs) = "-"
        body == IF cs # <<>> /\ Head(cs) \in {"+", "-"} THEN Tail(cs) ELSE cs
        dot == DotIndex(body, 1)
        int == IF dot = 0 THEN body ELSE SubSeq(body, 1, dot - 1)
        frac == IF dot = 0 THEN <<>> ELSE SubSeq(body, dot + 1, Len(body))
        tenths == DigitsValue(int, 0) * FloatScale + (IF frac = <<>> THEN 0 ELSE DigitVal(frac[1]))
    IN  IF (int = <<>> /\ frac = <<>>) \/ ~AllDigits(int) \/ ~AllDigits(frac) THEN ErrNum
        ELSE OkNum(IF neg THEN -tenths ELSE tenths)

RECURSIVE TrimEndZeros(_)
\* str::trim_end_matches('0')
TrimEndZeros(cs) ==
    IF cs # <<>> /\ cs[Len(cs)] = "0" THEN TrimEndZeros(SubSeq(cs, 1, Len(cs) - 1)) ELSE cs

\* looks_like_float
LooksLikeFloat(cs) ==
    /\ DotIndex(cs, 1) # 0
    /\ LET t == TrimEndZeros(cs)
           dot == DotIndex(t, 1)
       IN  dot # 0 /\ SubSeq(t, dot + 1, Len(t)) # <<>>

\* results of fallible calls that may also yield None
Res(ok, some, v, err) == [ok |-> ok, some |-> some, v |-> v, err |-> err]
SomeLit(l) == Res(TRUE, TRUE, l, "none")
NoLit == Res(TRUE, FALSE, NullLit, "none")
FailLit(kind) == Res(FALSE, FALSE, NullLit, kind)

\* parse_number
ParseNumber(dt, cs) ==
    CASE dt \in {"UInt8", "UInt16", "UInt32"} ->
            LET u == ParseUnsigned(cs)
            IN  IF ~u.ok THEN FailLit("ParserError")
                ELSE IF u.n >= WidthMin(dt) /\ u.n <= WidthMax(dt) THEN SomeLit(Lit(dt, u.n, <<>>))
                ELSE SomeLit(Lit("UInt64", u.n, <<>>))
      [] dt = "UInt64" ->
            LET u == ParseUnsigned(cs)
            IN  IF ~u.ok THEN FailLit("ParserError") ELSE SomeLit(Lit("UInt64", u.n, <<>>))
      [] dt \in {"Int8", "Int16", "Int32"} ->
            LET u == ParseSigned(cs)
            IN  IF ~u.ok THEN FailLit("ParserError")
                ELSE IF u.n >= WidthMin(dt) /\ u.n <= WidthMax(dt) THEN SomeLit(Lit(dt, u.n, <<>>))
                ELSE SomeLit(Lit("Int64", u.n, <<>>))
      [] dt = "Int64" ->
            LET u == ParseSigned(cs)
            IN  IF ~u.ok THEN FailLit("ParserError") ELSE SomeLit(Lit("Int64", u.n, <<>>))
      [] dt \in FloatTags ->
            LET f == ParseFloat(cs)
            IN  IF ~f.ok THEN FailLit("ParserError") ELSE SomeLit(Lit(dt, f.n, <<>>))
      [] OTHER -> NoLit

\* Literal::cast_or_maintain_precision
CastOrMaintainPrecision(l, dt) ==
    CASE l.tag = "UnResolvedNumber" ->
            IF IsInteger(dt) /\ LooksLikeFloat(l.text)
            THEN LET f == ParseFloat(l.text)
                 IN  IF ~f.ok THEN FailLit("ParserError") ELSE SomeLit(Float64Lit(f.n))
            ELSE ParseNumber(dt, l.text)
      [] l.tag = "UnResolvedString" ->
            (CASE dt = "String" -> SomeLit(Lit("String", 0, l.text))
               [] dt = "DateTime" -> SomeLit(Lit("DateTime", 0, l.text))
               [] OTHER -> NoLit)
      [] OTHER -> NoLit

(* -------------------------- expression rules --------------------------- *)
SomeExpr(e) == Res(TRUE, TRUE, e, "none")
NoExpr == Res(TRUE, FALSE, Wildcard, "none")
FailExpr(kind) == Res(FALSE, FALSE, Wildcard, kind)

\* ResolveExprRule::resolve_expression: an UnResolvedFieldRef becomes the
\* FieldRef of the first field of that name; a FieldRef of Unknown type whose
\* index points at a typed field takes that type; a name the schema lacks
\* stays as it is
ResolveExpression(node, schema) ==
    CASE node.kind = "UnResolvedFieldRef" ->
            LET idx == Position(schema, node.name, 1)
            IN  IF idx = 0 THEN NoExpr
                ELSE SomeExpr(FieldRef(node.name, idx - 1, schema[idx].dt))
      [] node.kind = "FieldRef" ->
            IF node.dt = "Unknown" /\ node.index < Len(schema) /\ schema[node.index + 1].dt # "Unknown"
            THEN SomeExpr(FieldRef(node.name, node.index, schema[node.index + 1].dt))
            ELSE NoExpr
      [] OTHER -> NoExpr

\* ResolveLiteralTypesRule::transform_expression_with_type_hint
TransformExpressionWithTypeHint(expr, typeHint) ==
    IF expr.kind = "Literal"
    THEN LET MapLiteral(c) ==
                 IF ~c.ok THEN FailExpr(c.err)
                 ELSE IF c.some THEN SomeExpr(LiteralExpr(c.v)) ELSE NoExpr
         IN  MapLiteral(CastOrMaintainPrecision(expr.lit, typeHint))
    ELSE NoExpr

\* ResolveLiteralTypesRule::align_data_type_left_to_right; rightFirst says
\* that the builder puts the aligned operand first
AlignDataTypeLeftToRight(op, left, right, rightFirst) ==
    LET Build(resolvedRight) ==
            IF ~resolvedRight.ok THEN resolvedRight
            ELSE IF resolvedRight.some /\ DataTypeOf(left) = DataTypeOf(resolvedRight.v)
                 THEN SomeExpr(IF rightFirst THEN BinaryOp(op, resolvedRight.v, left)
                                             ELSE BinaryOp(op, left, resolvedRight.v))
                 ELSE NoExpr
    IN  Build(TransformExpressionWithTypeHint(right, DataTypeOf(left)))

\* ResolveLiteralTypesRule::align_data_type
AlignDataType(op, left, right) ==
    IF DataTypeOf(left) # "Unknown" /\ DataTypeOf(right) = "Unknown"
    THEN AlignDataTypeLeftToRight(op, left, right, FALSE)
    ELSE IF DataTypeOf(right) # "Unknown" /\ DataTypeOf(left) = "Unknown"
    THEN AlignDataTypeLeftToRight(op, right, left, TRUE)
    ELSE NoExpr

\* ResolveLiteralTypesRule, Rule<Expression>::apply on one node
ResolveLiteralTypes(node) ==
    IF node.kind = "BinaryOp" THEN AlignDataType(node.name, node.args[1], node.args[2]) ELSE NoExpr

\* the names FunctionsRegistry::new registers, every one an aggregator
RegisteredFunctions == {"sum", "avg", "count", "max", "min"}

\* FunctionsRegistry::get_function and the builders: exactly one argument
GetFunction(name, args) ==
    IF name \notin RegisteredFunctions THEN NoExpr
    ELSE IF Len(args) = 1 THEN SomeExpr(Function(name, args[1]))
    ELSE FailExpr("Unknown")

\* ResolveFunctionsRule::resolve_functions
ResolveFunctions(expr) ==
    IF expr.kind = "UnResolvedFunction"
    THEN LET OrUnknown(f) == IF ~f.ok THEN f ELSE IF f.some THEN f ELSE FailExpr("Unknown")
         IN  OrUnknown(GetFunction(expr.name, expr.args))
    ELSE NoExpr

\* FunctionsRegistry::is_aggregator
IsAggregator(expr) ==
    CASE expr.kind = "UnResolvedFunction" -> expr.name \in RegisteredFunctions
      [] expr.kind = "Function" -> TRUE
      [] OTHER -> FALSE

\* the function a rule hands to transform_bottom_up
ApplyExprRule(rule, node, schema) ==
    CASE rule = "ResolveExpr" -> ResolveExpression(node, schema)
      [] rule = "ResolveLiteralTypes" -> ResolveLiteralTypes(node)
      [] rule = "ResolveFunctions" -> ResolveFunctions(node)

\* one turn of a loop that transforms a list: the first error ends it, a
\* transformed item replaces the original, any says that one was replaced
CollectUpdated(original, t, rest) ==
    IF ~t.ok THEN [ok |-> FALSE, any |-> FALSE, v |-> <<>>, err |-> t.err]
    ELSE IF ~rest.ok THEN rest
    ELSE [ok |-> TRUE, any |-> (t.some \/ rest.any),
          v |-> <<IF t.some THEN t.v ELSE original>> \o rest.v,
          err |-> "none"]

RECURSIVE TransformBottomUp(_, _, _)
RECURSIVE TransformChildren(_, _, _, _)
\* the loop of transform_bottom_up_helper over the children from position i
TransformChildren(rule, children, schema, i) ==
    IF i > Len(children) THEN [ok |-> TRUE, any |-> FALSE, v |-> <<>>, err |-> "none"]
    ELSE CollectUpdated(children[i], TransformBottomUp(rule, children[i], schema),
                        TransformChildren(rule, children, schema, i + 1))

\* Expression::transform_bottom_up with transform_bottom_up_helper
TransformBottomUp(rule, e, schema) ==
    LET OrUpdated(childrenUpdated, updatedSelf, r) ==
            IF ~r.ok THEN r
            ELSE IF r.some THEN r
            ELSE IF childrenUpdated THEN SomeExpr(updatedSelf) ELSE NoExpr
        ApplyToSelf(childrenUpdated, updatedSelf) ==
            OrUpdated(childrenUpdated, updatedSelf, ApplyExprRule(rule, updatedSelf, schema))
        WithChildren(cs) ==
            IF ~cs.ok THEN FailExpr(cs.err)
            ELSE ApplyToSelf(cs.any, IF cs.any THEN [e EXCEPT !.args = cs.v] ELSE e)
    IN  IF e.kind \in {"Literal", "UnResolvedFieldRef", "FieldRef", "Wildcard"}
        THEN ApplyToSelf(FALSE, e)
        ELSE WithChildren(TransformChildren(rule, e.args, schema, 1))

(* ----------------------------- aggregators ----------------------------- *)
\* the scratch fields of the aggregators
FIELD_SUM == "sum_agg_sum"
FIELD_COUNT == "count_agg_count"
FIELD_AVG_SUM == "avg_sum"
FIELD_AVG_COUNT == "avg_count"
FIELD_MAX == "max_agg_max"
FIELD_MIN == "min_agg_min"

OkRow(row) == [ok |-> TRUE, v |-> row, err |-> "none"]
ErrRow(kind) == [ok |-> FALSE, v |-> <<>>, err |-> kind]

\* Iterator::collect::<DBResult<Vec<_>>>() one item at a time: the first error,
\* or the item's value followed by the values of the rest
Collect(item, rest) ==
    IF ~item.ok THEN ErrRow(item.err)
    ELSE IF ~rest.ok THEN rest
    ELSE OkRow(<<item.v>> \o rest.v)

\* SumAgg::new, AvgAgg::new, CountAgg::new, MaxAgg::new, MinAgg::new: the
\* update expressions over (input row ++ scratch row), the scratch schema
\* and the initial scratch row
NewAggregator(name, arg) ==
    CASE name = "sum" ->
            [name |-> name,
             exprs |-> <<BinaryOp("Plus", arg, UnResolvedFieldRef(FIELD_SUM))>>,
             bufferSchema |-> <<FieldInfo(FIELD_SUM, "Float64")>>,
             initial |-> LET z == Zero(DataTypeOf(arg))
                         IN  IF z.ok THEN OkRow(<<z.v>>) ELSE ErrRow(z.err)]
      [] name = "avg" ->
            [name |-> name,
             exprs |-> <<BinaryOp("Plus", arg, UnResolvedFieldRef(FIELD_AVG_SUM)),
                         BinaryOp("Plus", LiteralExpr(UInt64Lit(1)), UnResolvedFieldRef(FIELD_AVG_COUNT))>>,
             bufferSchema |-> <<FieldInfo(FIELD_AVG_SUM, "Float64"), FieldInfo(FIELD_AVG_COUNT, "UInt64")>>,
             initial |-> OkRow(<<Float64Lit(0), UInt64Lit(0)>>)]
      [] name = "count" ->
            [name |-> name,
             exprs |-> <<BinaryOp("Plus", UnResolvedFieldRef(FIELD_COUNT), LiteralExpr(UInt64Lit(1)))>>,
             bufferSchema |-> <<FieldInfo(FIELD_COUNT, "UInt64")>>,
             initial |-> OkRow(<<UInt64Lit(0)>>)]
      [] name = "max" ->
            [name |-> name,
             exprs |-> <<BinaryOp("Max", UnResolvedFieldRef(FIELD_MAX), arg)>>,
             bufferSchema |-> <<FieldInfo(FIELD_MAX, DataTypeOf(arg))>>,
             initial |-> LET m == MinValue(DataTypeOf(arg))
                         IN  IF m.ok THEN OkRow(<<m.v>>) ELSE ErrRow(m.err)]
      [] name = "min" ->
            [name |-> name,
             exprs |-> <<BinaryOp("Min", UnResolvedFieldRef(FIELD_MIN), arg)>>,
             bufferSchema |-> <<FieldInfo(FIELD_MIN, DataTypeOf(arg))>>,
             initial |-> LET m == MaxValue(DataTypeOf(arg))
                         IN  IF m.ok THEN OkRow(<<m.v>>) ELSE ErrRow(m.err)]

RECURSIVE ResolveExprs(_, _, _)
\* AggregatingBuffer::resolve_expr over the expressions from position i: an
\* expression the rule leaves alone is an InterpretingError
ResolveExprs(exprs, schema, i) ==
    IF i > Len(exprs) THEN OkRow(<<>>)
    ELSE LET OkOr(r) == IF r.ok /\ ~r.some THEN FailExpr("InterpretingError") ELSE r
         IN  Collect(OkOr(TransformBottomUp("ResolveExpr", exprs[i], schema)),
                     ResolveExprs(exprs, schema, i + 1))

\* Aggregator::resolve_expr: the update expressions resolved against the
\* inbound schema followed by the scratch schema
ResolveAggregator(agg, inboundSchema) ==
    LET WithExprs(r) ==
            IF r.ok THEN [ok |-> TRUE, v |-> [agg EXCEPT !.exprs = r.v], err |-> "none"]
            ELSE [ok |-> FALSE, v |-> agg, err |-> r.err]
    IN  WithExprs(ResolveExprs(agg.exprs, Merge(inboundSchema, agg.bufferSchema), 1))

RECURSIVE EvalAll(_, _, _)
\* exprs.iter().map(|e| Interpreter::eval(e, row)).collect::<DBResult<Vec<_>>>()
EvalAll(exprs, row, i) ==
    IF i > Len(exprs) THEN OkRow(<<>>)
    ELSE Collect(Eval(exprs[i], row), EvalAll(exprs, row, i + 1))

\* AggregatingBuffer::process (SumAgg::process, AvgAgg::process): every update
\* expression is evaluated over the input row followed by the scratch row,
\* then output i is written to scratch field i
AggregatorProcess(agg, inputRow, outputBuffer) ==
    LET UpdateFields(outputs) ==
            IF ~outputs.ok THEN outputs
            ELSE IF Len(outputs.v) > Len(outputBuffer) THEN ErrRow("Unknown")
            ELSE OkRow([i \in 1..Len(outputBuffer) |->
                            IF i <= Len(outputs.v) THEN outputs.v[i] ELSE outputBuffer[i]])
    IN  UpdateFields(EvalAll(agg.exprs, Concat(inputRow, outputBuffer), 1))

\* Aggregator::result
AggregatorResult(agg, resultRow) ==
    IF agg.name = "avg"
    THEN LET Average(sum, count) ==
                 IF ~sum.ok THEN sum
                 ELSE IF ~count.ok THEN count
                 ELSE IF sum.v.tag = "Float64" /\ count.v.tag = "UInt64" /\ count.v.val # 0
                      THEN OkLit(Float64Lit(TruncDiv(sum.v.val, count.v.val)))
                      ELSE ErrLit("Unknown")
         IN  Average(GetField(resultRow, 0), GetField(resultRow, 1))
    ELSE GetField(resultRow, 0)

(* --------------------------- HashAggregator ---------------------------- *)
RECURSIVE NewAggregators(_, _)
\* HashAggregator::new_aggregators: one aggregator per aggregator expression,
\* built by the function the expression holds
NewAggregators(aggregatorExprs, i) ==
    IF i > Len(aggregatorExprs) THEN OkRow(<<>>)
    ELSE IF aggregatorExprs[i].kind # "Function" \/ Len(aggregatorExprs[i].args) # 1
         THEN ErrRow("Unknown")
    ELSE Collect(OkRow(NewAggregator(aggregatorExprs[i].name, aggregatorExprs[i].args[1])),
                 NewAggregators(aggregatorExprs, i + 1))

RECURSIVE ResolveAggregators(_, _, _)
\* the loop of HashAggregator::setup over agg.resolve_expr(&child_schema)
ResolveAggregators(aggs, childSchema, i) ==
    IF i > Len(aggs) THEN OkRow(<<>>)
    ELSE Collect(ResolveAggregator(aggs[i], childSchema),
                 ResolveAggregators(aggs, childSchema, i + 1))

RECURSIVE Process(_, _, _, _)
\* HashAggregator::process: aggregator i updates result row i
Process(aggregators, input, resultRows, i) ==
    IF i > Len(aggregators) \/ i > Len(resultRows) THEN OkRow(<<>>)
    ELSE Collect(AggregatorProcess(aggregators[i], input, resultRows[i]),
                 Process(aggregators, input, resultRows, i + 1))

RECURSIVE InitialRows(_, _)
\* aggregators.iter().map(|agg| agg.initial_row()).collect::<DBResult<Vec<_>>>()
InitialRows(aggregators, i) ==
    IF i > Len(aggregators) THEN OkRow(<<>>)
    ELSE Collect(aggregators[i].initial, InitialRows(aggregators, i + 1))

\* HashMap::get_mut(&key): the position of the entry with an equal key, 0 for None
RECURSIVE GetMut(_, _, _)
GetMut(buffers, key, i) ==
    IF i > Len(buffers) THEN 0
    ELSE IF KeyEq(buffers[i].key, key) THEN i
    ELSE GetMut(buffers, key, i + 1)

\* the entry of a key that is already there, updated by the processed rows
UpdatedEntry(buffers, at, p) ==
    IF ~p.ok THEN ErrRow(p.err) ELSE OkRow([buffers EXCEPT ![at].rows = p.v])

\* buffers.insert(result_key, result_rows)
InsertedEntry(buffers, key, rows) ==
    IF ~rows.ok THEN ErrRow(rows.err) ELSE OkRow(Append(buffers, [key |-> key, rows |-> rows.v]))

PullRowWithoutFirst(aggregators, groupingExprs, buffers, row) ==
    LET WithKey(key) ==
            IF ~key.ok THEN ErrRow(key.err)
            ELSE LET Entry(at) ==
                         IF at # 0
                         THEN UpdatedEntry(buffers, at, Process(aggregators, row, buffers[at].rows, 1))
                         ELSE InsertedEntry(buffers, key.v, InitialRows(aggregators, 1))
                 IN  Entry(GetMut(buffers, key.v, 1))
    IN  WithKey(EvalAll(groupingExprs, row, 1))

\* the body of the loop of HashAggregator::pull for one child row: the entry
\* of the row's key is updated; a key seen for the first time gets the
\* initial rows, the row is processed into them, and the entry is inserted
PullRow(aggregators, groupingExprs, buffers, row) ==
    LET Fresh(init) ==
            IF ~init.ok THEN init ELSE Process(aggregators, row, init.v, 1)
        WithKey(key) ==
            IF ~key.ok THEN ErrRow(key.err)
            ELSE LET Entry(at) ==
                         IF at # 0
                         THEN UpdatedEntry(buffers, at, Process(aggregators, row, buffers[at].rows, 1))
                         ELSE InsertedEntry(buffers, key.v, Fresh(InitialRows(aggregators, 1)))
                 IN  Entry(GetMut(buffers, key.v, 1))
    IN  WithKey(EvalAll(groupingExprs, row, 1))

RECURSIVE Pull(_, _, _, _, _)
\* HashAggregator::pull: the loop over child.next() from the child's cursor
Pull(aggregators, groupingExprs, buffers, child, pos) ==
    IF pos >= Len(child) THEN OkRow(buffers)
    ELSE LET Continue(r) ==
                 IF ~r.ok THEN r ELSE Pull(aggregators, groupingExprs, r.v, child, pos + 1)
         IN  Continue(PullRow(aggregators, groupingExprs, buffers, child[pos + 1]))

RECURSIVE AggregatorResults(_, _, _)
\* aggregators.iter().zip(aggregations).map(|(agg, r)| agg.result(r)).collect()
AggregatorResults(aggregators, aggregations, i) ==
    IF i > Len(aggregators) \/ i > Len(aggregations) THEN OkRow(<<>>)
    ELSE Collect(AggregatorResult(aggregators[i], aggregations[i]),
                 AggregatorResults(aggregators, aggregations, i + 1))

\* the row HashAggregator::try_push builds from the grouping values and the
\* finalized aggregators: aggs.extend(groupings)
PushedRow(groupings, aggs) == aggs \o groupings

\* HashAggregator::schema
HashAggregatorSchema(aggregatorExprs, groupingExprs) ==
    SchemaOfExprs(aggregatorExprs \o groupingExprs)

\* the orders in which HashMap::into_iter may hand out the entries
IterationOrders(entries) ==
    {[i \in 1..Len(entries) |-> entries[p[i]]] : p \in Permutations(1..Len(entries))}

\* the child of the aggregation: rows (k, v), k an Int32 or NULL, v an Int32
AggChildSchema == <<FieldInfo("k", "Int32"), FieldInfo("v", "Int32")>>
AggKeyValues == {Int32Lit(n) : n \in 1..MaxVal} \cup {NullLit}
AggRows == {<<k, Int32Lit(v)>> : k \in AggKeyValues, v \in 1..MaxVal}
AggChildren == SeqsUpTo(AggRows, MaxRows)

AggKeyColumn == FieldRef("k", 0, "Int32")
AggValueColumn == FieldRef("v", 1, "Int32")
AggGroupingLists == {<<>>, <<AggKeyColumn>>}
AggAggregatorLists ==
    {<<Function("sum", AggValueColumn)>>,
     <<Function("count", Wildcard)>>,
     <<Function("max", AggValueColumn)>>,
     <<Function("avg", AggValueColumn)>>,
     <<Function("sum", AggValueColumn), Function("count", Wildcard)>>}

\* HashAggregator::new
AggInit ==
    /\ aggChild \in AggChildren
    /\ aggGroupingExprs \in AggGroupingLists
    /\ aggAggregatorExprs \in AggAggregatorLists
    /\ aggAggregators = <<>>
    /\ aggBuffers = SomeRows(<<>>)
    /\ aggIter = NoRows
    /\ aggChildPos = 0
    /\ aggPushed = <<>>
    /\ aggOut = <<>>
    /\ aggEnded = FALSE
    /\ aggStatus = "new"

AggIdle ==
    /\ aggChild = <<>> /\ aggGroupingExprs = <<>> /\ aggAggregatorExprs = <<>>
    /\ aggAggregators = <<>> /\ aggBuffers = NoRows /\ aggIter = NoRows
    /\ aggChildPos = 0 /\ aggPushed = <<>> /\ aggOut = <<>> /\ aggEnded = FALSE
    /\ aggStatus = "new"

\* HashAggregator::setup
AggSetup ==
    /\ aggStatus = "new"
    /\ LET aggs == NewAggregators(aggAggregatorExprs, 1)
           resolved == IF aggs.ok THEN ResolveAggregators(aggs.v, AggChildSchema, 1) ELSE aggs
       IN  IF resolved.ok
           THEN aggAggregators' = resolved.v /\ aggStatus' = "ready"
           ELSE aggAggregators' = aggAggregators /\ aggStatus' = "err"
    /\ UNCHANGED <<aggChild, aggGroupingExprs, aggAggregatorExprs, aggBuffers, aggIter,
                   aggChildPos, aggPushed, aggOut, aggEnded>>
    /\ UNCHANGED notAggVars

\* HashAggregator::next: pull on the first call (the whole child is folded
\* into the buffers, which are then turned into an iterator), then try_push
AggNext ==
    /\ aggStatus = "ready"
    /\ LET pulled == IF aggIter.some THEN OkRow(<<>>)
                     ELSE Pull(aggAggregators, aggGroupingExprs, aggBuffers.rows, aggChild, aggChildPos)
       IN  IF ~pulled.ok
           THEN /\ aggStatus' = "err"
                /\ UNCHANGED <<aggBuffers, aggIter, aggChildPos, aggPushed, aggOut, aggEnded>>
           ELSE \E entries \in (IF aggIter.some THEN {aggIter.rows} ELSE IterationOrders(pulled.v)) :
                /\ aggBuffers' = NoRows
                /\ aggChildPos' = IF aggIter.some THEN aggChildPos ELSE Len(aggChild)
                /\ IF entries = <<>>
                   THEN /\ aggIter' = SomeRows(<<>>)
                        /\ aggEnded' = TRUE
                        /\ UNCHANGED <<aggPushed, aggOut, aggStatus>>
                   ELSE LET item == Head(entries)
                            results == AggregatorResults(aggAggregators, item.rows, 1)
                        IN  /\ aggIter' = SomeRows(Tail(entries))
                            /\ IF results.ok
                               THEN /\ aggPushed' = Append(aggPushed, [key |-> item.key, results |-> results.v])
                                    /\ aggOut' = Append(aggOut, PushedRow(item.key, results.v))
                                    /\ UNCHANGED aggStatus
                               ELSE /\ aggStatus' = "err"
                                    /\ UNCHANGED <<aggPushed, aggOut>>
                            /\ UNCHANGED aggEnded
    /\ UNCHANGED <<aggChild, aggGroupingExprs, aggAggregatorExprs, aggAggregators>>
    /\ UNCHANGED notAggVars

(* ----------------------- in-memory table and scan ---------------------- *)
Threads == {1, 2}
NoThread == 0

\* the table of the model: create table t (id int, name String)
TableSchema == <<FieldInfo("id", "Int32"), FieldInfo("name", "String")>>

\* the expressions of a VALUES row
NumberValue(cs) == [kind |-> "Number", text |-> cs]
StringValue(cs) == [kind |-> "String", text |-> cs]
BooleanValue(b) == [kind |-> "Boolean", text |-> <<IF b THEN "true" ELSE "false">>]
NullValue == [kind |-> "Null", text |-> <<"null">>]
OtherExpr == [kind |-> "Other", text |-> <<>>]

\* str::parse::<T> for the integer widths: out of range is an error
ParseWidth(dt, cs) ==
    LET n == IF dt \in {"UInt8", "UInt16", "UInt32", "UInt64"} THEN ParseUnsigned(cs) ELSE ParseSigned(cs)
    IN  IF n.ok /\ Fits(dt, n.n) THEN n ELSE ErrNum

\* convert_insert_expr_to_cell_value
ConvertInsertExprToCellValue(expr, dt) ==
    CASE expr.kind = "Number" ->
            (CASE dt \in IntegerTags ->
                    LET n == ParseWidth(dt, expr.text)
                    IN  IF n.ok THEN OkLit(Lit(dt, n.n, <<>>)) ELSE ErrLit("ParserError")
               [] dt \in FloatTags ->
                    LET f == ParseFloat(expr.text)
                    IN  IF f.ok THEN OkLit(Lit(dt, f.n, <<>>)) ELSE ErrLit("ParserError")
               [] OTHER -> ErrLit("ParserError"))
      [] expr.kind = "String" ->
            (IF dt \in {"String", "DateTime"} THEN OkLit(Lit(dt, 0, expr.text))
             ELSE ErrLit("ParserError"))
      [] expr.kind = "Boolean" ->
            (IF dt = "Boolean" THEN OkLit(BoolLit(expr.text = <<"true">>)) ELSE ErrLit("ParserError"))
      [] expr.kind = "Null" -> OkLit(NullLit)
      [] OTHER -> ErrLit("Panic")

RECURSIVE ConvertCells(_, _, _)
\* the loop of process_insert over the readers (idx, data_type) for one
\* VALUES row: a missing value becomes Null, a value beyond the schema is
\* not looked at
ConvertCells(r, schema, i) ==
    IF i > Len(schema) THEN OkRow(<<>>)
    ELSE LET cell == IF i <= Len(r) THEN ConvertInsertExprToCellValue(r[i], schema[i].dt)
                     ELSE OkLit(NullLit)
         IN  IF ~cell.ok THEN ErrRow(cell.err)
             ELSE LET rest == ConvertCells(r, schema, i + 1)
                  IN  IF ~rest.ok THEN rest ELSE OkRow(<<cell.v>> \o rest.v)

RECURSIVE RowsToInsert(_, _, _)
\* the loop of process_insert over the VALUES rows: the first conversion
\* error ends the statement
RowsToInsert(rows, schema, i) ==
    IF i > Len(rows) THEN OkRow(<<>>)
    ELSE LET row == ConvertCells(rows[i], schema, 1)
         IN  IF ~row.ok THEN row
             ELSE LET rest == RowsToInsert(rows, schema, i + 1)
                  IN  IF ~rest.ok THEN rest ELSE OkRow(<<row.v>> \o rest.v)

InsertDataReplacing(data, rows) == rows

\* InMemTable::insert_data: self.data.extend(data)
InsertData(data, rows) == data \o rows

\* InMemTable::read: a copy of the rows
Read(data) == data

GuardKeptAfterSetup(readers, t) == readers

\* the read guard InMemTableScan::setup takes is a local: it is dropped
\* when setup returns
GuardsAfterSetup(readers, t) == readers \ {t}

\* the statements of the model
ValuesOne == <<NumberValue(<<"1">>), StringValue(<<"a">>)>>
ValuesTwo == <<NumberValue(<<"2">>), StringValue(<<"b">>)>>
ValuesShort == <<NumberValue(<<"1">>)>>
ValuesLong == <<NumberValue(<<"2">>), StringValue(<<"b">>), StringValue(<<"c">>)>>
ValuesBad == <<NumberValue(<<"1", ".", "5">>), StringValue(<<"a">>)>>
InsertStatements ==
    {<<ValuesOne>>, <<ValuesTwo>>, <<ValuesOne, ValuesTwo>>, <<ValuesShort>>, <<ValuesLong>>,
     <<ValuesTwo, ValuesBad>>}

\* a VALUES row as the statement writes it, one text per column of the table
WrittenRow(r) == [i \in 1..Len(TableSchema) |-> IF i <= Len(r) THEN JoinChars(r[i].text) ELSE "null"]
WrittenRows(rows) == [i \in 1..Len(rows) |-> WrittenRow(rows[i])]

\* a stored row as it prints
PrintedRow(row) == [i \in 1..Len(row) |-> LiteralToString(row[i])]
PrintedRows(rows) == [i \in 1..Len(rows) |-> PrintedRow(rows[i])]

DbInit ==
    /\ tblData = <<>> /\ tblReaders = {} /\ tblWriter = NoThread
    /\ dbPc = [t \in Threads |-> "idle"]
    /\ dbPending = [t \in Threads |-> <<>>]
    /\ scanSnapshot = [t \in Threads |-> NoRows]
    /\ scanNext = [t \in Threads |-> 0]
    /\ selOut = [t \in Threads |-> <<>>]
    /\ dbResult = [t \in Threads |-> "none"]
    /\ dbStatements = 0
    /\ dbLog = <<>>
    /\ dbPendingText = [t \in Threads |-> <<>>]
    /\ selLogAtStart = [t \in Threads |-> <<>>]
    /\ scanLogAtSetup = [t \in Threads |-> <<>>]

DbIdle == DbInit

\* a process_insert that stores each row as soon as it is converted
InsertConvertStoringRows(t, rows) ==
    /\ dbPc[t] = "idle" /\ dbStatements < MaxStatements
    /\ tblWriter = NoThread
    /\ dbStatements' = dbStatements + 1
    /\ LET converted == RowsToInsert(rows, TableSchema, 1)
       IN  IF converted.ok
           THEN /\ dbPending' = [dbPending EXCEPT ![t] = converted.v]
                /\ dbPendingText' = [dbPendingText EXCEPT ![t] = WrittenRows(rows)]
                /\ dbPc' = [dbPc EXCEPT ![t] = "insert_wait"]
                /\ dbResult' = [dbResult EXCEPT ![t] = "none"]
                /\ UNCHANGED tblData
           ELSE /\ dbResult' = [dbResult EXCEPT ![t] = converted.err]
                /\ tblData' = InsertData(tblData, RowsToInsert(<<rows[1]>>, TableSchema, 1).v)
                /\ UNCHANGED <<dbPending, dbPendingText, dbPc>>
    /\ UNCHANGED <<tblReaders, tblWriter, scanSnapshot, scanNext, selOut, dbLog,
                   selLogAtStart, scanLogAtSetup>>
    /\ UNCHANGED notDbVars

\* process_insert up to the write: the schema is read under the table's read
\* lock (released at the end of the block) and the VALUES rows are converted;
\* a conversion error ends the statement before anything is written
InsertConvert(t, rows) ==
    /\ dbPc[t] = "idle" /\ dbStatements < MaxStatements
    /\ tblWriter = NoThread
    /\ dbStatements' = dbStatements + 1
    /\ LET converted == RowsToInsert(rows, TableSchema, 1)
       IN  IF converted.ok
           THEN /\ dbPending' = [dbPending EXCEPT ![t] = converted.v]
                /\ dbPendingText' = [dbPendingText EXCEPT ![t] = WrittenRows(rows)]
                /\ dbPc' = [dbPc EXCEPT ![t] = "insert_wait"]
                /\ dbResult' = [dbResult EXCEPT ![t] = "none"]
           ELSE /\ dbResult' = [dbResult EXCEPT ![t] = converted.err]
                /\ UNCHANGED <<dbPending, dbPendingText, dbPc>>
    /\ UNCHANGED <<tblData, tblReaders, tblWriter, scanSnapshot, scanNext, selOut, dbLog,
                   selLogAtStart, scanLogAtSetup>>
    /\ UNCHANGED notDbVars

\* process_insert: RwLock::write on the table, granted when no guard is out
InsertLock(t) ==
    /\ dbPc[t] = "insert_wait"
    /\ tblWriter = NoThread /\ tblReaders = {}
    /\ tblWriter' = t
    /\ dbPc' = [dbPc EXCEPT ![t] = "insert_locked"]
    /\ UNCHANGED <<tblData, tblReaders, dbPending, scanSnapshot, scanNext, selOut, dbResult,
                   dbStatements, dbLog, dbPendingText, selLogAtStart, scanLogAtSetup>>
    /\ UNCHANGED notDbVars

\* process_insert: table.insert_data(rows_to_insert), the write guard is
\* dropped and the statement returns Ok
InsertWrite(t) ==
    /\ dbPc[t] = "insert_locked"
    /\ tblData' = InsertData(tblData, dbPending[t])
    /\ tblWriter' = NoThread
    /\ dbLog' = dbLog \o dbPendingText[t]
    /\ dbPending' = [dbPending EXCEPT ![t] = <<>>]
    /\ dbPendingText' = [dbPendingText EXCEPT ![t] = <<>>]
    /\ dbResult' = [dbResult EXCEPT ![t] = "ok"]
    /\ dbPc' = [dbPc EXCEPT ![t] = "idle"]
    /\ UNCHANGED <<tblReaders, scanSnapshot, scanNext, selOut, dbStatements, selLogAtStart,
                   scanLogAtSetup>>
    /\ UNCHANGED notDbVars

\* a SELECT * FROM t begins: InMemTableScan::new
SelectBegin(t) ==
    /\ dbPc[t] = "idle" /\ dbStatements < MaxStatements
    /\ dbStatements' = dbStatements + 1
    /\ scanSnapshot' = [scanSnapshot EXCEPT ![t] = NoRows]
    /\ scanNext' = [scanNext EXCEPT ![t] = 0]
    /\ selOut' = [selOut EXCEPT ![t] = <<>>]
    /\ dbResult' = [dbResult EXCEPT ![t] = "none"]
    /\ selLogAtStart' = [selLogAtStart EXCEPT ![t] = dbLog]
    /\ dbPc' = [dbPc EXCEPT ![t] = "select_new"]
    /\ UNCHANGED <<tblData, tblReaders, tblWriter, dbPending, dbLog, dbPendingText, scanLogAtSetup>>
    /\ UNCHANGED notDbVars

\* InMemTableScan::setup: RwLock::read on the table, granted when no writer
\* holds it
ScanSetupLock(t) ==
    /\ dbPc[t] = "select_new"
    /\ tblWriter = NoThread
    /\ tblReaders' = tblReaders \cup {t}
    /\ dbPc' = [dbPc EXCEPT ![t] = "select_setup"]
    /\ UNCHANGED <<tblData, tblWriter, dbPending, scanSnapshot, scanNext, selOut, dbResult,
                   dbStatements, dbLog, dbPendingText, selLogAtStart, scanLogAtSetup>>
    /\ UNCHANGED notDbVars

\* InMemTableScan::setup: the snapshot is taken and setup returns
ScanSetupCopy(t) ==
    /\ dbPc[t] = "select_setup"
    /\ scanSnapshot' = [scanSnapshot EXCEPT ![t] = SomeRows(Read(tblData))]
    /\ tblReaders' = GuardsAfterSetup(tblReaders, t)
    /\ scanLogAtSetup' = [scanLogAtSetup EXCEPT ![t] = dbLog]
    /\ dbPc' = [dbPc EXCEPT ![t] = "select_scan"]
    /\ UNCHANGED <<tblData, tblWriter, dbPending, scanNext, selOut, dbResult, dbStatements,
                   dbLog, dbPendingText, selLogAtStart>>
    /\ UNCHANGED notDbVars

\* InMemTableScan::next, called by the statement until it yields None
ScanNext(t) ==
    /\ dbPc[t] = "select_scan"
    /\ scanNext' = [scanNext EXCEPT ![t] = scanNext[t] + 1]
    /\ IF scanSnapshot[t].some /\ Len(scanSnapshot[t].rows) > scanNext[t]
       THEN /\ selOut' = [selOut EXCEPT ![t] = Append(selOut[t], scanSnapshot[t].rows[scanNext[t] + 1])]
            /\ UNCHANGED <<dbPc, dbResult>>
       ELSE /\ dbPc' = [dbPc EXCEPT ![t] = "idle"]
            /\ dbResult' = [dbResult EXCEPT ![t] = "rows"]
            /\ UNCHANGED selOut
    /\ UNCHANGED <<tblData, tblReaders, tblWriter, dbPending, scanSnapshot, dbStatements, dbLog,
                   dbPendingText, selLogAtStart, scanLogAtSetup>>
    /\ UNCHANGED notDbVars

DbNext ==
    \E t \in Threads :
        \/ \E rows \in InsertStatements : InsertConvert(t, rows)
        \/ InsertLock(t)
        \/ InsertWrite(t)
        \/ SelectBegin(t)
        \/ ScanSetupLock(t)
        \/ ScanSetupCopy(t)
        \/ ScanNext(t)

(* ---------------------------- logical plans ---------------------------- *)
\* LogicalPlan: one record shape for every variant.  exprs holds the
\* expression of a Filter or UnResolvedHaving, the expressions of a
\* Projection, the aggregators of an Aggregator and the expressions of the
\* options of a Sort (asc their directions); child is empty or one plan.
Plan(kind, table, schema, exprs, groupings, asc, offset, limit, child) ==
    [kind |-> kind, table |-> table, schema |-> schema, exprs |-> exprs,
     groupings |-> groupings, asc |-> asc, offset |-> offset, limit |-> limit, child |-> child]

UnResolvedScanPlan(table) == Plan("UnResolvedScan", table, <<>>, <<>>, <<>>, <<>>, 0, LimitAll, <<>>)
ScanPlan(table, schema) == Plan("Scan", table, schema, <<>>, <<>>, <<>>, 0, LimitAll, <<>>)
FilterPlan(expression, child) ==
    Plan("Filter", "", <<>>, <<expression>>, <<>>, <<>>, 0, LimitAll, <<child>>)
ProjectionPlan(expressions, child) ==
    Plan("Projection", "", <<>>, expressions, <<>>, <<>>, 0, LimitAll, <<child>>)
AggregatorPlan(aggregators, groupings, child) ==
    Plan("Aggregator", "", <<>>, aggregators, groupings, <<>>, 0, LimitAll, <<child>>)
SortPlan(exprs, asc, child) == Plan("Sort", "", <<>>, exprs, <<>>, asc, 0, LimitAll, <<child>>)
LimitPlan(offset, limit, child) == Plan("Limit", "", <<>>, <<>>, <<>>, <<>>, offset, limit, <<child>>)
UnResolvedHavingPlan(prediction, child) ==
    Plan("UnResolvedHaving", "", <<>>, <<prediction>>, <<>>, <<>>, 0, LimitAll, <<child>>)

\* results of fallible calls on plans that may also yield None
SomePlan(p) == Res(TRUE, TRUE, p, "none")
NoPlan == Res(TRUE, FALSE, UnResolvedScanPlan(""), "none")
FailPlan(kind) == Res(FALSE, FALSE, UnResolvedScanPlan(""), kind)

\* results of LogicalPlan::schema
OkSchema(fields) == [ok |-> TRUE, v |-> fields, err |-> "none"]
ErrSchema(kind) == [ok |-> FALSE, v |-> <<>>, err |-> kind]

\* the nodes that hand the schema of their child on, beside Filter and Sort
PreservesChildSchema(kind) == kind \in {"Limit", "UnResolvedHaving"}

RECURSIVE PlanSchema(_)
\* LogicalPlan::schema
PlanSchema(p) ==
    CASE p.kind = "UnResolvedScan" -> ErrSchema("Unknown")
      [] p.kind = "Scan" -> OkSchema(p.schema)
      [] p.kind \in {"Filter", "Sort"} -> PlanSchema(p.child[1])
      [] p.kind = "Projection" -> OkSchema(SchemaOfExprs(p.exprs))
      [] p.kind = "Aggregator" -> OkSchema(AggregatorSchema(p.groupings, p.exprs))
      [] PreservesChildSchema(p.kind) -> PlanSchema(p.child[1])

(* ------------------------------- parser -------------------------------- *)
\* what build_logical_plan reads of a parsed SELECT: the table, the WHERE
\* expression (none or one), the GROUP BY expressions, the projections
\* (empty for *), the HAVING expression, the ORDER BY expressions with
\* their directions, and LIMIT with OFFSET (none or one)
Query(table, selection, groupBy, projection, having, orderBy, asc, limit) ==
    [table |-> table, selection |-> selection, groupBy |-> groupBy, projection |-> projection,
     having |-> having, orderBy |-> orderBy, asc |-> asc, limit |-> limit]

\* build_logical_plan
BuildLogicalPlan(q) ==
    LET scan == UnResolvedScanPlan(q.table)
        filtered == IF q.selection # <<>> THEN FilterPlan(q.selection[1], scan) ELSE scan
        grouped == IF q.groupBy # <<>> THEN AggregatorPlan(<<>>, q.groupBy, filtered) ELSE filtered
        projected == IF q.projection # <<>> THEN ProjectionPlan(q.projection, grouped) ELSE grouped
        had == IF q.having # <<>> THEN UnResolvedHavingPlan(q.having[1], projected) ELSE projected
        sorted == IF q.orderBy # <<>> THEN SortPlan(q.orderBy, q.asc, had) ELSE had
    IN  IF q.limit # <<>> THEN LimitPlan(q.limit[1].offset, LimitNum(q.limit[1].limit), sorted)
        ELSE sorted

(* ------------------------- rules on the plan --------------------------- *)
\* the catalog the optimizer consults: one table
CatalogTables == {"t"}
CatalogSchema(table) ==
    <<FieldInfo("k", "Int32"), FieldInfo("v", "Int32"), FieldInfo("f", "Float64")>>

\* ResolvePlanRule::resolve_logical_plan with Catalog::try_get_table
ResolveLogicalPlan(p) ==
    IF p.kind = "UnResolvedScan"
    THEN IF p.table \in CatalogTables THEN SomePlan(ScanPlan(p.table, CatalogSchema(p.table)))
         ELSE FailPlan("TableNotFound")
    ELSE NoPlan

\* a HashMap<String, Expression> as its entries; the position of a key, 0
\* when the map lacks it
RECURSIVE KeyIndex(_, _, _)
KeyIndex(map, id, i) ==
    IF i > Len(map) THEN 0
    ELSE IF map[i].id = id THEN i
    ELSE KeyIndex(map, id, i + 1)

\* HashMap::insert: the value of a key the map holds is replaced
MapInsert(map, id, e) ==
    LET i == KeyIndex(map, id, 1)
    IN  IF i = 0 THEN Append(map, [id |-> id, e |-> e]) ELSE [map EXCEPT ![i] = [id |-> id, e |-> e]]

\* the values of the map, in the order of its entries
MapValues(map) == [i \in 1..Len(map) |-> map[i].e]

RECURSIVE ExtractAggregators(_, _)
RECURSIVE ExtractFromAll(_, _, _)
\* PushDownAggregatorsRule::extract_aggregators: transform_top_down visits
\* the node, then its children, and the closure never replaces a node
ExtractAggregators(expression, aggregators) ==
    LET here == IF IsAggregator(expression)
                THEN MapInsert(aggregators, SematicId(expression), expression)
                ELSE aggregators
    IN  ExtractFromAll(expression.args, here, 1)

\* extract_aggregators over a list of expressions, from position i
ExtractFromAll(exprs, aggregators, i) ==
    IF i > Len(exprs) THEN aggregators
    ELSE ExtractFromAll(exprs, ExtractAggregators(exprs[i], aggregators), i + 1)

\* a replacement that leaves the aggregators where they are
KeepUnresolvedAgg(expr, resolvedMap) == expr

RECURSIVE TransformWithResolvedAgg(_, _)
\* PushDownAggregatorsRule::transform_with_resolved_agg, with the caller's
\* fallback to the expression itself: an aggregator the map resolves is
\* replaced by its FieldRef, every other node keeps its place
TransformWithResolvedAgg(expr, resolvedMap) ==
    LET i == KeyIndex(resolvedMap, SematicId(expr), 1)
    IN  IF IsAggregator(expr) /\ i # 0 THEN resolvedMap[i].e
        ELSE [expr EXCEPT !.args = [j \in 1..Len(expr.args) |->
                                        TransformWithResolvedAgg(expr.args[j], resolvedMap)]]

\* PushDownAggregatorsRule::transform_exprs_with_resolved_agg
TransformExprsWithResolvedAgg(expressions, resolvedMap) ==
    [i \in 1..Len(expressions) |-> TransformWithResolvedAgg(expressions[i], resolvedMap)]

RECURSIVE PlanOutputs(_)
\* PushDownAggregatorsRule::plan_outputs
PlanOutputs(node) ==
    CASE node.kind \in {"UnResolvedScan", "Scan"} -> <<>>
      [] node.kind = "Projection" -> node.exprs
      [] node.kind = "Aggregator" -> node.groupings \o node.exprs
      [] OTHER -> PlanOutputs(node.child[1])

\* a has_projection that takes every node for one that projects
HasProjectionAlways(node) == node.kind # ""

\* PushDownAggregatorsRule::has_projection
HasProjection(node) == node.kind \in {"UnResolvedScan", "Scan", "Projection", "Aggregator"}

\* semantic_map.get: the last output of that semantic id (a later insert
\* replaces an earlier one), 0 when there is none
RECURSIVE LastIndexOf(_, _, _)
LastIndexOf(outputs, id, i) ==
    IF i = 0 THEN 0
    ELSE IF SematicId(outputs[i]) = id THEN i
    ELSE LastIndexOf(outputs, id, i - 1)

RECURSIVE PushDownArguments(_, _, _, _, _)
\* a resolution that hands the node the arguments of the aggregators, not
\* the aggregators
PushDownArguments(exprs, node, i, resolvedExprs, pushDownExprs) ==
    IF i > Len(exprs) THEN [resolved |-> resolvedExprs, pushDown |-> pushDownExprs]
    ELSE PushDownArguments(exprs, node, i + 1,
             Append(resolvedExprs, FieldRef(ExprToString(exprs[i]),
                                            Len(PlanOutputs(node)) + Len(pushDownExprs),
                                            DataTypeOf(exprs[i]))),
             pushDownExprs \o exprs[i].args)

RECURSIVE ResolveExprsAgainstNodeOutputs(_, _, _, _, _)
\* PushDownAggregatorsRule::resolve_exprs_against_node_outputs: the loop
\* over exprs from position i
ResolveExprsAgainstNodeOutputs(exprs, node, i, resolvedExprs, pushDownExprs) ==
    IF i > Len(exprs) THEN [resolved |-> resolvedExprs, pushDown |-> pushDownExprs]
    ELSE LET Against(outputs, idx) ==
                 IF idx # 0
                 THEN ResolveExprsAgainstNodeOutputs(exprs, node, i + 1,
                          Append(resolvedExprs, FieldRef(ExprToString(outputs[idx]), idx - 1,
                                                         DataTypeOf(outputs[idx]))),
                          pushDownExprs)
                 ELSE ResolveExprsAgainstNodeOutputs(exprs, node, i + 1,
                          Append(resolvedExprs, FieldRef(ExprToString(exprs[i]),
                                                         Len(outputs) + Len(pushDownExprs),
                                                         DataTypeOf(exprs[i]))),
                          pushDownExprs \o <<exprs[i]>>)
             Outputs(outputs) ==
                 Against(outputs, LastIndexOf(outputs, SematicId(exprs[i]), Len(outputs)))
         IN  Outputs(PlanOutputs(node))

RECURSIVE BuildResolvedMap(_, _, _, _)
\* PushDownAggregatorsRule::build_resolved_map: the loop from position i
BuildResolvedMap(unresolvedExprs, resolvedExprs, i, resolvedMap) ==
    IF i > Len(unresolvedExprs) \/ i > Len(resolvedExprs) THEN resolvedMap
    ELSE BuildResolvedMap(unresolvedExprs, resolvedExprs, i + 1,
                          MapInsert(resolvedMap, SematicId(unresolvedExprs[i]), resolvedExprs[i]))

RECURSIVE ResolveOrPushDown(_, _)
\* PushDownAggregatorsRule::resolve_or_push_down: the updated node, if any,
\* and the map of the resolved expressions
ResolveOrPushDown(node, exprs) ==
    CASE node.kind \in {"Projection", "Aggregator"} ->
            LET Pushed(r) ==
                    [some |-> r.pushDown # <<>>,
                     v |-> IF r.pushDown = <<>> THEN node
                           ELSE [node EXCEPT !.exprs = @ \o r.pushDown],
                     map |-> BuildResolvedMap(exprs, r.resolved, 1, <<>>)]
            IN  Pushed(ResolveExprsAgainstNodeOutputs(exprs, node, 1, <<>>, <<>>))
      [] node.kind \in {"Filter", "UnResolvedHaving"} ->
            LET Through(c) ==
                    IF c.some
                    THEN [some |-> TRUE, v |-> [node EXCEPT !.child = <<c.v>>], map |-> c.map]
                    ELSE [some |-> FALSE, v |-> node, map |-> c.map]
            IN  Through(ResolveOrPushDown(node.child[1], exprs))
      [] OTHER -> [some |-> FALSE, v |-> node, map |-> <<>>]

\* the builders resolve_or_push_down_aggregators hands to the helper
PushDownBuilder(node, expressions, updatedChild) ==
    CASE node.kind = "Projection" -> ProjectionPlan(expressions, updatedChild)
      [] node.kind = "Sort" -> SortPlan(expressions, node.asc, updatedChild)
      [] node.kind = "UnResolvedHaving" -> FilterPlan(expressions[1], updatedChild)

\* a restoring projection that counts the columns from one
RestoringProjectionFromOne(schema, updatedNode) ==
    ProjectionPlan([i \in 1..Len(schema) |-> FieldRef(schema[i].name, i, schema[i].dt)],
                   updatedNode)

\* the projection that keeps the output schema of a node whose child took
\* pushed aggregators
RestoringProjection(schema, updatedNode) ==
    ProjectionPlan([i \in 1..Len(schema) |-> FieldRef(schema[i].name, i - 1, schema[i].dt)],
                   updatedNode)

\* PushDownAggregatorsRule::resolve_or_push_down_aggregators_helpers from
\* aggs_to_resolve on: aggsToResolve is aggregators.values() in the order
\* the map handed them out
PushDownWithOrder(node, aggsToResolve) ==
    LET child == node.child[1]
        Restored(updatedNode, childSchema, updatedSchema) ==
            IF ~childSchema.ok THEN FailPlan(childSchema.err)
            ELSE IF childSchema.v # updatedSchema.v
            THEN SomePlan(RestoringProjection(childSchema.v, updatedNode))
            ELSE SomePlan(updatedNode)
        Updated(updatedNode, updatedSchema) ==
            IF ~updatedSchema.ok THEN FailPlan(updatedSchema.err)
            ELSE IF HasProjection(updatedNode) THEN SomePlan(updatedNode)
            ELSE Restored(updatedNode, PlanSchema(child), updatedSchema)
        Rebuilt(r, newExpressions) ==
            IF Len(r.map) # Len(aggsToResolve) THEN NoPlan
            ELSE IF r.some
            THEN Updated(PushDownBuilder(node, newExpressions, r.v), PlanSchema(r.v))
            ELSE SomePlan(PushDownBuilder(node, newExpressions, child))
        Resolved(r) == Rebuilt(r, TransformExprsWithResolvedAgg(node.exprs, r.map))
    IN  Resolved(ResolveOrPushDown(child, aggsToResolve))

\* PushDownAggregatorsRule::resolve_or_push_down_aggregators: every result
\* an iteration order of the map of aggregators can give
ResolveOrPushDownAggregators(node) ==
    IF node.kind \in {"Projection", "Sort", "UnResolvedHaving"}
    THEN LET Resolve(aggregators) ==
                 IF aggregators = <<>> THEN {NoPlan}
                 ELSE {PushDownWithOrder(node, order) :
                          order \in IterationOrders(MapValues(aggregators))}
         IN  Resolve(ExtractFromAll(node.exprs, <<>>, 1))
    ELSE {NoPlan}

\* the function a rule on plans hands to transform_bottom_up
ApplyPlanFunc(rule, node) ==
    CASE rule = "ResolvePlan" -> {ResolveLogicalPlan(node)}
      [] rule = "PushDownAggregators" -> ResolveOrPushDownAggregators(node)

RECURSIVE PlanTransformBottomUp(_, _)
\* LogicalPlan::transform_bottom_up with
\* transform_bottom_up_for_single_child_plan: the results it can give
PlanTransformBottomUp(rule, p) ==
    LET ApplyToSelf(childUpdated, self) ==
            {IF r.ok /\ ~r.some /\ childUpdated THEN SomePlan(self) ELSE r :
                r \in ApplyPlanFunc(rule, self)}
    IN  IF p.child = <<>> THEN ApplyToSelf(FALSE, p)
        ELSE UNION {
                IF ~c.ok THEN {c}
                ELSE IF c.some THEN ApplyToSelf(TRUE, [p EXCEPT !.child = <<c.v>>])
                ELSE ApplyToSelf(FALSE, p)
                : c \in PlanTransformBottomUp(rule, p.child[1])}

\* Rule<Expression>::apply of the three expression rules
RuleApply(rule, expr, schema) == TransformBottomUp(rule, expr, schema)

RECURSIVE TransformExprList(_, _, _, _)
\* the loop of transform_exprs_for_single_child_plan over the expressions
\* from position i
TransformExprList(rule, expressions, schema, i) ==
    IF i > Len(expressions) THEN [ok |-> TRUE, any |-> FALSE, v |-> <<>>, err |-> "none"]
    ELSE CollectUpdated(expressions[i], RuleApply(rule, expressions[i], schema),
                        TransformExprList(rule, expressions, schema, i + 1))

\* the builders transform_exprs hands to the helper
TransformExprsBuilder(p, expressions, child) ==
    CASE p.kind = "Filter" -> FilterPlan(expressions[1], child)
      [] p.kind = "Projection" -> ProjectionPlan(expressions, child)
      [] p.kind = "Aggregator" ->
            AggregatorPlan(SubSeq(expressions, 1, Len(p.exprs)),
                           SubSeq(expressions, Len(p.exprs) + 1, Len(expressions)), child)
      [] p.kind = "Sort" -> SortPlan(expressions, p.asc, child)
      [] p.kind = "UnResolvedHaving" -> UnResolvedHavingPlan(expressions[1], child)
      [] p.kind = "Limit" -> LimitPlan(p.offset, p.limit, child)

RECURSIVE PlanTransformExprs(_, _)
RECURSIVE TransformExprsForSingleChildPlan(_, _, _)
RECURSIVE TransformExprsOfPassThrough(_, _)
\* LogicalPlan::transform_exprs_for_single_child_plan
TransformExprsForSingleChildPlan(rule, p, expressions) ==
    LET Build(child, childUpdated, t) ==
            IF ~t.ok THEN FailPlan(t.err)
            ELSE IF ~childUpdated /\ ~t.any THEN NoPlan
            ELSE SomePlan(TransformExprsBuilder(p, t.v, child))
        WithSchema(child, childUpdated, schema) ==
            IF ~schema.ok THEN FailPlan(schema.err)
            ELSE Build(child, childUpdated, TransformExprList(rule, expressions, schema.v, 1))
        WithChild(newChild) ==
            IF ~newChild.ok THEN newChild
            ELSE IF newChild.some THEN WithSchema(newChild.v, TRUE, PlanSchema(newChild.v))
            ELSE WithSchema(p.child[1], FALSE, PlanSchema(p.child[1]))
    IN  WithChild(PlanTransformExprs(rule, p.child[1]))

\* transform_exprs on UnResolvedHaving and Limit: the prediction is
\* transformed as the expression of a Filter is, a Limit has no expression
TransformExprsOfPassThrough(rule, p) == TransformExprsForSingleChildPlan(rule, p, p.exprs)

\* LogicalPlan::transform_exprs
PlanTransformExprs(rule, p) ==
    CASE p.kind \in {"UnResolvedScan", "Scan"} -> NoPlan
      [] p.kind \in {"Filter", "Projection", "Sort"} ->
            TransformExprsForSingleChildPlan(rule, p, p.exprs)
      [] p.kind = "Aggregator" -> TransformExprsForSingleChildPlan(rule, p, p.exprs \o p.groupings)
      [] OTHER -> TransformExprsOfPassThrough(rule, p)

(* ------------------------------ optimizer ------------------------------ *)
\* get_all_rules: the stages and their rules
AllRules ==
    <<<<"ResolvePlan", "PushDownAggregators">>,
      <<"ResolveExpr", "ResolveLiteralTypes", "ResolveFunctions">>>>

\* an optimizer whose ResolveFunctions rule never reports a change
ApplyPlanRuleWithoutFunctions(rule, plan) ==
    IF rule \in {"ResolvePlan", "PushDownAggregators"} THEN PlanTransformBottomUp(rule, plan)
    ELSE IF rule = "ResolveFunctions" THEN {NoPlan}
    ELSE {PlanTransformExprs(rule, plan)}

\* Rule<LogicalPlan>::apply: the results the rule can give on a plan
ApplyPlanRule(rule, plan) ==
    IF rule \in {"ResolvePlan", "PushDownAggregators"} THEN PlanTransformBottomUp(rule, plan)
    ELSE {PlanTransformExprs(rule, plan)}

\* the expressions of the statements: columns, numbers as the parser
\* leaves them, calls
Col(name) == UnResolvedFieldRef(name)
Num(text) == LiteralExpr(Lit("UnResolvedNumber", 0, text))
Call(name, arg) == UnResolvedFunction(name, <<arg>>)

\* select * from t where v > 1.5
QueryFilterFloat ==
    Query("t", <<BinaryOp("Gt", Col("v"), Num(<<"1", ".", "5">>))>>, <<>>, <<>>, <<>>, <<>>, <<>>, <<>>)
\* select * from t where v > 1
QueryFilterInt ==
    Query("t", <<BinaryOp("Gt", Col("v"), Num(<<"1">>))>>, <<>>, <<>>, <<>>, <<>>, <<>>, <<>>)
\* select * from t where 1 > 2
QueryLiterals ==
    Query("t", <<BinaryOp("Gt", Num(<<"1">>), Num(<<"2">>))>>, <<>>, <<>>, <<>>, <<>>, <<>>, <<>>)
\* select k, sum(v), max(f) from t group by k
QueryGroupTwo ==
    Query("t", <<>>, <<Col("k")>>, <<Col("k"), Call("sum", Col("v")), Call("max", Col("f"))>>,
          <<>>, <<>>, <<>>, <<>>)
\* select k, sum(v) from t group by k having avg(v) < 30.0 order by max(v) desc limit 1
QueryHavingSort ==
    Query("t", <<>>, <<Col("k")>>, <<Col("k"), Call("sum", Col("v"))>>,
          <<BinaryOp("Lt", Call("avg", Col("v")), Num(<<"3", "0", ".", "0">>))>>,
          <<Call("max", Col("v"))>>, <<FALSE>>, <<[offset |-> 0, limit |-> 1]>>)
\* select k from t group by k having sum(v) > 1 and min(f) < 2.5
QueryHavingTwo ==
    Query("t", <<>>, <<Col("k")>>, <<Col("k")>>,
          <<BinaryOp("And", BinaryOp("Gt", Call("sum", Col("v")), Num(<<"1">>)),
                            BinaryOp("Lt", Call("min", Col("f")), Num(<<"2", ".", "5">>)))>>,
          <<>>, <<>>, <<>>)
\* select count(*) from t group by k
QueryCountStar ==
    Query("t", <<>>, <<Col("k")>>, <<Call("count", Wildcard)>>, <<>>, <<>>, <<>>, <<>>)
\* select sum(v) from t
QuerySumNoGroup == Query("t", <<>>, <<>>, <<Call("sum", Col("v"))>>, <<>>, <<>>, <<>>, <<>>)
\* select k from t having min(v) > 1 order by sum(v)
QueryHavingSortNoGroup ==
    Query("t", <<>>, <<>>, <<Col("k")>>, <<BinaryOp("Gt", Call("min", Col("v")), Num(<<"1">>))>>,
          <<Call("sum", Col("v"))>>, <<TRUE>>, <<>>)
\* select k from missing
QueryMissingTable == Query("missing", <<>>, <<>>, <<Col("k")>>, <<>>, <<>>, <<>>, <<>>)
\* select foo(v) from t
QueryUnknownFunction == Query("t", <<>>, <<>>, <<Call("foo", Col("v"))>>, <<>>, <<>>, <<>>, <<>>)

OptQueries ==
    {QueryFilterFloat, QueryFilterInt, QueryLiterals, QueryGroupTwo, QueryHavingSort,
     QueryHavingTwo, QueryCountStar, QuerySumNoGroup, QueryHavingSortNoGroup, QueryMissingTable,
     QueryUnknownFunction}

\* the two runs of Optimizer::optimize on one plan
Runs == {1, 2}

OptInit ==
    /\ optInput \in {BuildLogicalPlan(q) : q \in OptQueries}
    /\ optRun = 1
    /\ optPlan = [r \in Runs |-> optInput]
    /\ optStage = 1
    /\ optRule = 1
    /\ optChanged = FALSE
    /\ optPasses = 1
    /\ optStatus = [r \in Runs |-> IF r = 1 THEN "running" ELSE "waiting"]
    /\ optErr = [r \in Runs |-> "none"]

OptIdle ==
    /\ optInput = UnResolvedScanPlan("")
    /\ optRun = 1
    /\ optPlan = [r \in Runs |-> optInput]
    /\ optStage = 1
    /\ optRule = 1
    /\ optChanged = FALSE
    /\ optPasses = 1
    /\ optStatus = [r \in Runs |-> "waiting"]
    /\ optErr = [r \in Runs |-> "none"]

\* one rule.apply of optimize_with_stage_rules and what the loops do after
\* it: the next rule, another pass of the stage when something changed, the
\* next stage, or the return of optimize
OptApplyRule ==
    /\ optStatus[optRun] = "running"
    /\ \E r \in ApplyPlanRule(AllRules[optStage][optRule], optPlan[optRun]) :
          IF ~r.ok
          THEN /\ optStatus' = [optStatus EXCEPT ![optRun] = "err"]
               /\ optErr' = [optErr EXCEPT ![optRun] = r.err]
               /\ UNCHANGED <<optPlan, optStage, optRule, optChanged, optPasses>>
          ELSE LET changed == optChanged \/ r.some
                   lastRule == optRule = Len(AllRules[optStage])
                   lastStage == optStage = Len(AllRules)
               IN  /\ (lastRule /\ changed) => optPasses < MaxPasses
                   /\ optPlan' = [optPlan EXCEPT ![optRun] = IF r.some THEN r.v ELSE @]
                   /\ optRule' = IF lastRule THEN 1 ELSE optRule + 1
                   /\ optChanged' = IF lastRule THEN FALSE ELSE changed
                   /\ optPasses' = IF lastRule THEN (IF changed THEN optPasses + 1 ELSE 1)
                                   ELSE optPasses
                   /\ optStage' = IF lastRule /\ ~changed /\ ~lastStage THEN optStage + 1
                                  ELSE optStage
                   /\ optStatus' = IF lastRule /\ ~changed /\ lastStage
                                   THEN [optStatus EXCEPT ![optRun] = "ok"]
                                   ELSE optStatus
                   /\ UNCHANGED optErr
    /\ UNCHANGED <<optInput, optRun>>
    /\ UNCHANGED notOptVars

\* the second call of optimize, on the same input plan
OptSecondRun ==
    /\ optRun = 1
    /\ optStatus[1] \in {"ok", "err"}
    /\ optRun' = 2
    /\ optStatus' = [optStatus EXCEPT ![2] = "running"]
    /\ optStage' = 1
    /\ optRule' = 1
    /\ optChanged' = FALSE
    /\ optPasses' = 1
    /\ UNCHANGED <<optInput, optPlan, optErr>>
    /\ UNCHANGED notOptVars

OptNext == OptApplyRule \/ OptSecondRun

(* ------------------------------- catalog ------------------------------- *)
\* str::to_lowercase on the characters the names of the model are made of
ToLowercase(cs) ==
    [i \in 1..Len(cs) |->
        CASE cs[i] = "C" -> "c" [] cs[i] = "S" -> "s" [] cs[i] = "V" -> "v" [] cs[i] = "B" -> "b"
          [] OTHER -> cs[i]]

\* str::ends_with
EndsWith(cs, suffix) ==
    Len(suffix) <= Len(cs) /\ SubSeq(cs, Len(cs) - Len(suffix) + 1, Len(cs)) = suffix

\* the test of get_or_create_table for an ad-hoc csv path
IsCsvPath(name) == EndsWith(ToLowercase(name), <<".", "c", "s", "v">>)

\* the names looked up: a table made by create_table, two csv files that
\* exist, a csv path with no file behind it, a name that is neither
NameT == <<"t">>
NameACsv == <<"a", ".", "c", "s", "v">>
NameBCsv == <<"b", ".", "C", "S", "V">>
NameGoneCsv == <<"x", ".", "c", "s", "v">>
NameCsvNoDot == <<"c", "s", "v">>
CatNames == {NameT, NameACsv, NameBCsv, NameGoneCsv, NameCsvNoDot}

\* the paths File::open succeeds on
CsvFiles == {NameACsv, NameBCsv}

NoTable == 0

\* DBResult<CatalogTable>
TableResult(id) == [kind |-> "table", id |-> id]
ErrResult(e) == [kind |-> e, id |-> NoTable]
NoResult == [kind |-> "none", id |-> NoTable]

\* Catalog::new followed by create_table("t", ..)
CatInit ==
    /\ catTables = [n \in CatNames |-> IF n = NameT THEN 1 ELSE NoTable]
    /\ catCreated = 1
    /\ catLookups = 0
    /\ catPc = [t \in Threads |-> "idle"]
    /\ catName = [t \in Threads |-> NameT]
    /\ catNew = [t \in Threads |-> NoTable]
    /\ catResult = [t \in Threads |-> NoResult]

CatIdle == CatInit

\* a caller enters try_get_table(name)
TryGetTable(t, name) ==
    /\ catPc[t] = "idle" /\ catLookups < MaxLookups
    /\ catLookups' = catLookups + 1
    /\ catName' = [catName EXCEPT ![t] = name]
    /\ catNew' = [catNew EXCEPT ![t] = NoTable]
    /\ catResult' = [catResult EXCEPT ![t] = NoResult]
    /\ catPc' = [catPc EXCEPT ![t] = "get"]
    /\ UNCHANGED <<catTables, catCreated>>
    /\ UNCHANGED notCatVars

\* get_or_create_table: tables.get(name) under the read lock, released at
\* the end of the statement; a hit or a miss on a name that is no csv path
\* returns, and try_get_table turns None into TableNotFound
GetOrCreateTable(t) ==
    /\ catPc[t] = "get"
    /\ IF catTables[catName[t]] = NoTable /\ IsCsvPath(catName[t])
       THEN /\ catPc' = [catPc EXCEPT ![t] = "csv_new"]
            /\ UNCHANGED catResult
       ELSE /\ catPc' = [catPc EXCEPT ![t] = "idle"]
            /\ catResult' = [catResult EXCEPT ![t] =
                   IF catTables[catName[t]] = NoTable THEN ErrResult("TableNotFound")
                   ELSE TableResult(catTables[catName[t]])]
    /\ UNCHANGED <<catTables, catCreated, catLookups, catName, catNew>>
    /\ UNCHANGED notCatVars

\* CsvTable::new(name)?: an error of the reader leaves get_or_create_table
CsvTableNew(t) ==
    /\ catPc[t] = "csv_new"
    /\ IF catName[t] \in CsvFiles
       THEN /\ catCreated' = catCreated + 1
            /\ catNew' = [catNew EXCEPT ![t] = catCreated + 1]
            /\ catPc' = [catPc EXCEPT ![t] = "add"]
            /\ UNCHANGED catResult
       ELSE /\ catResult' = [catResult EXCEPT ![t] = ErrResult("StorageEngine")]
            /\ catPc' = [catPc EXCEPT ![t] = "idle"]
            /\ UNCHANGED <<catCreated, catNew>>
    /\ UNCHANGED <<catTables, catLookups, catName>>
    /\ UNCHANGED notCatVars

\* add_new_table: tables_map.insert(name, table) under the write lock, then
\* get_or_create_table is entered again
AddNewTable(t) ==
    /\ catPc[t] = "add"
    /\ catTables' = [catTables EXCEPT ![catName[t]] = catNew[t]]
    /\ catPc' = [catPc EXCEPT ![t] = "get"]
    /\ UNCHANGED <<catCreated, catLookups, catName, catNew, catResult>>
    /\ UNCHANGED notCatVars

CatNext ==
    \E t \in Threads :
        \/ \E name \in CatNames : TryGetTable(t, name)
        \/ GetOrCreateTable(t)
        \/ CsvTableNew(t)
        \/ AddNewTable(t)

(* ----------------------------- csv tables ------------------------------ *)
NUM_RECORDS_TO_INFER_SCHEMA == 10

\* CsvTable::data_type_generality
DataTypeGenerality(dt) ==
    CASE dt = "Int64" -> 1
      [] dt = "Float64" -> 2
      [] dt = "String" -> 255
      [] dt = "Boolean" -> 1
      [] OTHER -> 0

\* CsvTable::determine_data_type
DetermineDataType(field, typeHint) ==
    LET lowerCase == ToLowercase(field)
        dataType == IF lowerCase \in {<<"t", "r", "u", "e">>, <<"f", "a", "l", "s", "e">>} THEN "Boolean"
                    ELSE IF ParseSigned(lowerCase).ok THEN "Int64"
                    ELSE IF ParseFloat(lowerCase).ok THEN "Float64"
                    ELSE "String"
    IN  IF dataType = typeHint THEN dataType
        ELSE IF DataTypeGenerality(dataType) < DataTypeGenerality(typeHint) THEN typeHint
        ELSE IF DataTypeGenerality(dataType) = DataTypeGenerality(typeHint) THEN "String"
        ELSE dataType

\* the header line of the files
CsvHeaders == <<"id">>

RECURSIVE InferDataTypes(_, _, _)
\* CsvTable::new: the loop over the records read ahead; a record whose
\* length differs from the header's is a StorageEngine error
InferDataTypes(records, numRecordsRead, dataTypes) ==
    IF numRecordsRead >= Len(records) \/ numRecordsRead >= NUM_RECORDS_TO_INFER_SCHEMA
    THEN [ok |-> TRUE, types |-> dataTypes, err |-> ""]
    ELSE LET record == records[numRecordsRead + 1]
         IN  IF Len(record) # Len(CsvHeaders)
             THEN [ok |-> FALSE, types |-> dataTypes, err |-> "StorageEngine"]
             ELSE InferDataTypes(records, numRecordsRead + 1,
                      [i \in 1..Len(dataTypes) |-> DetermineDataType(record[i], dataTypes[i])])

\* CsvScan::parse_value; From<ParseIntError> and From<ParseFloatError> make
\* a failed parse a DBError::ParserError, a data type outside the four is
\* unreachable!()
ParseValue(value, dataType) ==
    CASE dataType = "Int64" ->
            (LET n == ParseSigned(value)
             IN  IF n.ok THEN OkLit(Lit("Int64", n.n, <<>>)) ELSE ErrLit("ParserError"))
      [] dataType = "Float64" ->
            (LET n == ParseFloat(value)
             IN  IF n.ok THEN OkLit(Float64Lit(n.n)) ELSE ErrLit("ParserError"))
      [] dataType = "String" -> OkLit(StringLit(value))
      [] dataType = "Boolean" -> OkLit(BoolLit(ToLowercase(value) = <<"t", "r", "u", "e">>))
      [] OTHER -> ErrLit("panic")

RECURSIVE ParseRecord(_, _, _)
\* CsvScan::next: the cells of a record, collected until the first error
ParseRecord(record, dataTypes, i) ==
    IF i > Len(record) THEN OkRow(<<>>)
    ELSE Collect(ParseValue(record[i], dataTypes[i]), ParseRecord(record, dataTypes, i + 1))

\* the fields a record can hold and the records made of them
CsvFields == {<<"1">>, <<"1", ".", "5">>, <<"x">>, <<"t", "r", "u", "e">>}
CsvRecordsOfModel == {<<f>> : f \in CsvFields} \cup {<<<<"1">>, <<"2">>>>}

\* the files: up to MaxTail records, alone or after as many equal records as
\* the schema is inferred from
CsvContents ==
    {[i \in 1..n |-> r] \o tail :
        r \in {<<f>> : f \in CsvFields}, n \in {0, NUM_RECORDS_TO_INFER_SCHEMA},
        tail \in SeqsUpTo(CsvRecordsOfModel, MaxTail)}

CsvIdle ==
    /\ csvRecords = <<>> /\ csvTypes = <<>> /\ csvPc = "idle" /\ csvPos = 0 /\ csvOut = <<>>
    /\ csvErr = "" /\ csvErrStage = ""

\* a statement names a csv file
CsvInit ==
    /\ csvRecords \in CsvContents
    /\ csvTypes = <<>> /\ csvPc = "compile" /\ csvPos = 0 /\ csvOut = <<>>
    /\ csvErr = "" /\ csvErrStage = ""

\* compile stage: the catalog constructs the CsvTable, which infers the
\* schema, and the plan's CsvScan is made with that schema
CsvCompile ==
    /\ csvPc = "compile"
    /\ LET inferred == InferDataTypes(csvRecords, 0, [i \in 1..Len(CsvHeaders) |-> "Unknown"])
       IN  IF inferred.ok
           THEN csvTypes' = inferred.types /\ csvPc' = "setup" /\ UNCHANGED <<csvErr, csvErrStage>>
           ELSE /\ csvErr' = inferred.err /\ csvErrStage' = "compile" /\ csvPc' = "failed"
                /\ UNCHANGED csvTypes
    /\ UNCHANGED <<csvRecords, csvPos, csvOut>>
    /\ UNCHANGED notCsvVars

\* CsvScan::setup: the reader is opened and the header skipped
CsvSetup ==
    /\ csvPc = "setup"
    /\ csvPos' = 0 /\ csvPc' = "scan"
    /\ UNCHANGED <<csvRecords, csvTypes, csvOut, csvErr, csvErrStage>>
    /\ UNCHANGED notCsvVars

\* CsvScan::next
CsvNext ==
    /\ csvPc = "scan"
    /\ IF csvPos < Len(csvRecords)
       THEN LET record == csvRecords[csvPos + 1]
                cells == IF Len(record) # Len(csvTypes) THEN ErrRow("StorageEngine")
                         ELSE ParseRecord(record, csvTypes, 1)
            IN  /\ csvPos' = csvPos + 1
                /\ IF cells.ok
                   THEN csvOut' = Append(csvOut, cells.v) /\ UNCHANGED <<csvPc, csvErr, csvErrStage>>
                   ELSE /\ csvErr' = cells.err /\ csvErrStage' = "next" /\ csvPc' = "failed"
                        /\ UNCHANGED csvOut
       ELSE csvPc' = "done" /\ UNCHANGED <<csvPos, csvOut, csvErr, csvErrStage>>
    /\ UNCHANGED <<csvRecords, csvTypes>>
    /\ UNCHANGED notCsvVars

CsvScanNext == CsvCompile \/ CsvSetup \/ CsvNext

(* ------------------------ calls of the interpreter --------------------- *)
\* the expressions handed to eval: every leaf variant, and the operators
\* and the alias over the leaves
EvalLeaves ==
    {LiteralExpr(Int32Lit(1)), FieldRef("v", 0, "Int32"), UnResolvedFieldRef("v"),
     UnResolvedFunction("sum", <<UnResolvedFieldRef("v")>>), Wildcard}
EvalExprs ==
    EvalLeaves
    \cup {BinaryOp(op, l, r) : op \in {"Plus", "Gt"}, l \in EvalLeaves, r \in EvalLeaves}
    \cup {UnaryOp("Neg", i) : i \in EvalLeaves}
    \cup {Alias("a", c) : c \in EvalLeaves}
EvalRows == {<<Int32Lit(v)>> : v \in 0..MaxVal}

EvalIdle ==
    /\ evExpr = Wildcard /\ evRow = <<>> /\ evDone = FALSE /\ evResult = OkLit(NullLit)

EvalInit ==
    /\ evExpr \in EvalExprs /\ evRow \in EvalRows /\ evDone = FALSE /\ evResult = OkLit(NullLit)

\* Interpreter::eval(expr, row) returns
EvalCall ==
    /\ ~evDone
    /\ evDone' = TRUE
    /\ evResult' = Eval(evExpr, evRow)
    /\ UNCHANGED <<evExpr, evRow>>
    /\ UNCHANGED notEvVars

(* --------------------- transforms of an expression --------------------- *)
\* the visitors handed to the transforms: resolveA replaces the column a by
\* a FieldRef, expandC replaces the column c by a + b (b + a with swap),
\* wrapResolved puts an alias around a sum whose left side is resolved
Visitors == [resolveA : BOOLEAN, expandC : BOOLEAN, swap : BOOLEAN, wrapResolved : BOOLEAN]

\* func(node, context)
Visit(visitor, node) ==
    IF visitor.resolveA /\ node = UnResolvedFieldRef("a")
    THEN SomeExpr(FieldRef("a", 0, "Int32"))
    ELSE IF visitor.expandC /\ node = UnResolvedFieldRef("c")
    THEN SomeExpr(IF visitor.swap
                  THEN BinaryOp("Plus", UnResolvedFieldRef("b"), UnResolvedFieldRef("a"))
                  ELSE BinaryOp("Plus", UnResolvedFieldRef("a"), UnResolvedFieldRef("b")))
    ELSE IF visitor.wrapResolved /\ node.kind = "BinaryOp" /\ node.args[1].kind = "FieldRef"
    THEN SomeExpr(Alias("s", node))
    ELSE NoExpr

\* what a traversal returns, with the nodes it called the visitor on
Traced(some, v, visits) == [some |-> some, v |-> v, visits |-> visits]

\* Expression::clone_with_children
CloneWithChildren(e, children) == [e EXCEPT !.args = children]

RECURSIVE TransformTopDown(_, _)
RECURSIVE TopDownCollect(_, _, _)
RECURSIVE TopDownEach(_, _, _)
\* transform_top_down, func returned Some(updated): the children of updated
\* collected into DBResult<Option<Vec<_>>>, which ends at the first child
\* whose traversal returns None and is then None
TopDownCollect(visitor, children, i) ==
    IF i > Len(children) THEN Traced(TRUE, <<>>, <<>>)
    ELSE LET Next(t) ==
                 IF ~t.some THEN Traced(FALSE, <<>>, t.visits)
                 ELSE LET Rest(rest) == Traced(rest.some, <<t.v>> \o rest.v, t.visits \o rest.visits)
                      IN  Rest(TopDownCollect(visitor, children, i + 1))
         IN  Next(TransformTopDown(visitor, children[i]))

\* transform_top_down, func returned None: the loop over the children of
\* self, an unchanged child is cloned
TopDownEach(visitor, children, i) ==
    IF i > Len(children) THEN Traced(FALSE, <<>>, <<>>)
    ELSE LET Next(t, rest) ==
                 Traced(t.some \/ rest.some, <<IF t.some THEN t.v ELSE children[i]>> \o rest.v,
                        t.visits \o rest.visits)
         IN  Next(TransformTopDown(visitor, children[i]), TopDownEach(visitor, children, i + 1))

\* Expression::transform_top_down
TransformTopDown(visitor, e) ==
    LET Replaced(updated, cs) ==
            IF cs.some /\ cs.v # <<>>
            THEN Traced(TRUE, CloneWithChildren(updated, cs.v), <<e>> \o cs.visits)
            ELSE Traced(TRUE, updated, <<e>> \o cs.visits)
        Kept(cs) ==
            IF cs.some THEN Traced(TRUE, CloneWithChildren(e, cs.v), <<e>> \o cs.visits)
            ELSE Traced(FALSE, e, <<e>> \o cs.visits)
        Visited(r) ==
            IF r.some THEN Replaced(r.v, TopDownCollect(visitor, r.v.args, 1))
            ELSE Kept(TopDownEach(visitor, e.args, 1))
    IN  Visited(Visit(visitor, e))

RECURSIVE TransformBottomUpTraced(_, _)
RECURSIVE BottomUpEach(_, _, _)
\* transform_bottom_up_helper: the loop over the children
BottomUpEach(visitor, children, i) ==
    IF i > Len(children) THEN Traced(FALSE, <<>>, <<>>)
    ELSE LET Next(t, rest) ==
                 Traced(t.some \/ rest.some, <<IF t.some THEN t.v ELSE children[i]>> \o rest.v,
                        t.visits \o rest.visits)
         IN  Next(TransformBottomUpTraced(visitor, children[i]),
                  BottomUpEach(visitor, children, i + 1))

\* a helper that answers with what func returns also when the children
\* changed
BottomUpDroppingRebuilt(visitor, e) ==
    LET Self(node, r, visits) == Traced(r.some, IF r.some THEN r.v ELSE e, visits \o <<node>>)
        WithChildren(cs) ==
            IF cs.some
            THEN Self(CloneWithChildren(e, cs.v), Visit(visitor, CloneWithChildren(e, cs.v)),
                      cs.visits)
            ELSE Self(e, Visit(visitor, e), cs.visits)
    IN  IF e.args = <<>> THEN Self(e, Visit(visitor, e), <<>>)
        ELSE WithChildren(BottomUpEach(visitor, e.args, 1))

\* Expression::transform_bottom_up with transform_bottom_up_helper, func a
\* visitor that never fails
TransformBottomUpTraced(visitor, e) ==
    LET Self(node, r, childrenUpdated, visits) ==
            Traced(r.some \/ childrenUpdated, IF r.some THEN r.v ELSE node,
                   visits \o <<node>>)
        WithChildren(cs) ==
            IF cs.some
            THEN Self(CloneWithChildren(e, cs.v), Visit(visitor, CloneWithChildren(e, cs.v)),
                      TRUE, cs.visits)
            ELSE Self(e, Visit(visitor, e), FALSE, cs.visits)
    IN  IF e.args = <<>> THEN Self(e, Visit(visitor, e), FALSE, <<>>)
        ELSE WithChildren(BottomUpEach(visitor, e.args, 1))

\* the expressions transformed: columns and a literal, sums of them, and a
\* negation or an alias over a sum
TransformLeaves ==
    {UnResolvedFieldRef("a"), UnResolvedFieldRef("b"), UnResolvedFieldRef("c"),
     LiteralExpr(Int32Lit(1))}
TransformSums == {BinaryOp("Plus", l, r) : l \in TransformLeaves, r \in TransformLeaves}
TransformExprs ==
    TransformLeaves \cup TransformSums
    \cup {UnaryOp("Neg", x) : x \in TransformSums}
    \cup {BinaryOp("Gt", x, LiteralExpr(Int32Lit(1))) : x \in TransformSums}

TransformIdle ==
    /\ trExpr = Wildcard /\ trVisitor = [resolveA |-> FALSE, expandC |-> FALSE, swap |-> FALSE,
                                        wrapResolved |-> FALSE]
    /\ trCalled = "" /\ trResult = NoExpr /\ trVisits = <<>>

TransformInit ==
    /\ trExpr \in TransformExprs /\ trVisitor \in Visitors
    /\ trCalled = "" /\ trResult = NoExpr /\ trVisits = <<>>

\* expr.transform_top_down(context, func) returns
TopDownCall ==
    /\ trCalled = ""
    /\ trCalled' = "top_down"
    /\ LET Returned(t) ==
               /\ trResult' = (IF t.some THEN SomeExpr(t.v) ELSE NoExpr)
               /\ trVisits' = t.visits
       IN  Returned(TransformTopDown(trVisitor, trExpr))
    /\ UNCHANGED <<trExpr, trVisitor>>
    /\ UNCHANGED notTrVars

\* expr.transform_bottom_up(context, func) returns
BottomUpCall ==
    /\ trCalled = ""
    /\ trCalled' = "bottom_up"
    /\ LET Returned(t) ==
               /\ trResult' = (IF t.some THEN SomeExpr(t.v) ELSE NoExpr)
               /\ trVisits' = t.visits
       IN  Returned(TransformBottomUpTraced(trVisitor, trExpr))
    /\ UNCHANGED <<trExpr, trVisitor>>
    /\ UNCHANGED notTrVars

TransformNext == TopDownCall \/ BottomUpCall

(* ------------------- arithmetic on two literals ------------------------ *)
\* the operands: the limits of Int8 and of UInt8, values near zero, and an
\* operand of a third tag
ArithLits ==
    {Lit("Int8", v, <<>>) : v \in {-128, -1, 0, 2, 127}}
    \cup {Lit("UInt8", v, <<>>) : v \in {0, 2, 255}}
    \cup {Int32Lit(1)}
ArithOps == {"Plus", "Minus", "Multiply", "Divide"}
ArithExprs ==
    {BinaryOp(op, LiteralExpr(l), LiteralExpr(r)) : op \in ArithOps, l \in ArithLits, r \in ArithLits}

\* eval of an arithmetic expression, in a build of either profile
ArithInit ==
    /\ evExpr \in ArithExprs /\ evRow = <<>> /\ evDone = FALSE /\ evResult = OkLit(NullLit)

(* ------------------------ casts of number texts ------------------------ *)
\* the characters a number text is made of
CastChars == {"0", "1", "5", ".", "-"}
CastTexts == SeqsUpTo(CastChars, MaxText)
CastTypes == IntegerTags \cup {"Float64"}

CastIdle ==
    /\ castText = <<>> /\ castType = "Unknown" /\ castDone = FALSE /\ castResult = NoLit

CastInit ==
    /\ castText \in CastTexts /\ castType \in CastTypes
    /\ castDone = FALSE /\ castResult = NoLit

\* Literal::UnResolvedNumber(text).cast_or_maintain_precision(data_type) returns
CastCall ==
    /\ ~castDone
    /\ castDone' = TRUE
    /\ castResult' = CastOrMaintainPrecision(Lit("UnResolvedNumber", 0, castText), castType)
    /\ UNCHANGED <<castText, castType>>
    /\ UNCHANGED notCastVars

(* ------------------ resolution of an aggregator ------------------------ *)
\* the names a column of the inbound schema can have: two plain names and
\* the names of the scratch fields
InboundNames == {"k", "v", FIELD_SUM, FIELD_COUNT, FIELD_AVG_SUM, FIELD_AVG_COUNT, FIELD_MAX, FIELD_MIN}

\* the inbound schemas: up to MaxFields Int32 columns, v among them
InboundFieldLists ==
    {fs \in UNION {[1..n -> InboundNames] : n \in 1..MaxFields} : \E i \in 1..Len(fs) : fs[i] = "v"}
InboundSchema(fs) == [i \in 1..Len(fs) |-> FieldInfo(fs[i], "Int32")]

\* the aggregators over the column v, which the plan has resolved already
AggregatorsOver(fs) ==
    {NewAggregator(name, FieldRef("v", Position(InboundSchema(fs), "v", 1) - 1, "Int32")) :
        name \in {"sum", "avg", "max", "min"}}
    \cup {NewAggregator("count", Wildcard)}

ResolveIdle ==
    /\ raFields = <<>> /\ raAgg = NewAggregator("count", Wildcard) /\ raDone = FALSE /\ raOk = FALSE

ResolveInit ==
    /\ raFields \in InboundFieldLists
    /\ raAgg \in AggregatorsOver(raFields)
    /\ raDone = FALSE /\ raOk = FALSE

\* agg.resolve_expr(&inbound_schema) returns
ResolveCall ==
    /\ ~raDone
    /\ raDone' = TRUE
    /\ LET Returned(r) == raOk' = r.ok /\ raAgg' = r.v
       IN  Returned(ResolveAggregator(raAgg, InboundSchema(raFields)))
    /\ UNCHANGED raFields
    /\ UNCHANGED notRaVars

(* ------------------------- locks of a CrackDB -------------------------- *)
\* the RwLocks: the one around the Catalog, the one around its tables map,
\* and the one around each table (an in-memory table and a csv table)
Locks == {"catalog", "tables", "table", "csvTable"}

\* the operations of a statement on the locks
Acq(lock, mode) == [op |-> "acq", lock |-> lock, mode |-> mode]
Rel(lock) == [op |-> "rel", lock |-> lock, mode |-> ""]
\* tables.get(name) under the read guard, tables_map.insert under the write
\* guard, and the test opt_table.is_none() && ..ends_with(".csv")
MapGet == [op |-> "get", lock |-> "tables", mode |-> ""]
MapPut == [op |-> "insert", lock |-> "tables", mode |-> ""]
IfMissInstall == [op |-> "branch", lock |-> "tables", mode |-> ""]

\* a lazy install that asks for the write guard with the read guard still out
GetOrCreateCsvTableKeepingReadGuard ==
    <<Acq("tables", "read"), MapGet, IfMissInstall, Rel("tables")>>

\* Catalog::get_or_create_table of a name that is no csv path: the read guard
\* lives for the lookup only
GetTable == <<Acq("tables", "read"), Rel("tables")>>

\* Catalog::get_or_create_table of a csv path: lookup under the read guard,
\* then, on a miss, CsvTable::new, add_new_table and the lookup again
GetOrCreateCsvTable == <<Acq("tables", "read"), MapGet, Rel("tables"), IfMissInstall>>

\* Catalog::add_new_table
AddNewTableOps == <<Acq("tables", "write"), MapPut, Rel("tables")>>

\* CreateTableHandler::create_table: the catalog guard is a temporary of the
\* statement that calls Catalog::create_table
CreateTableOps == <<Acq("catalog", "read")>> \o AddNewTableOps \o <<Rel("catalog")>>

\* a statement `let table = RwLock::read(&catalog)?.try_get_table(name)?;`:
\* the catalog guard is dropped at the end of the statement
TryGetTableOps(lookup) == <<Acq("catalog", "read")>> \o lookup \o <<Rel("catalog")>>

\* InsertHandler::process_insert: the schema is read under the table's read
\* guard, the rows are written under its write guard
InsertOps ==
    TryGetTableOps(GetTable) \o <<Acq("table", "read"), Rel("table")>>
        \o TryGetTableOps(GetTable) \o <<Acq("table", "write"), Rel("table")>>

\* a SELECT: ResolvePlanRule::resolve_logical_plan (OptimizerContext::
\* try_get_table, then the table's read guard for its schema), planning, and
\* for an in-memory table InMemTableScan::setup and schema
SelectOps ==
    TryGetTableOps(GetTable) \o <<Acq("table", "read"), Rel("table")>>
        \o TryGetTableOps(GetTable)
        \o <<Acq("table", "read"), Rel("table"), Acq("table", "read"), Rel("table")>>
SelectCsvOps ==
    TryGetTableOps(GetOrCreateCsvTable) \o <<Acq("csvTable", "read"), Rel("csvTable")>>
        \o TryGetTableOps(GetOrCreateCsvTable)

StatementOps == {CreateTableOps, InsertOps, SelectOps, SelectCsvOps}

LockIdle ==
    /\ lkReaders = [l \in Locks |-> {}] /\ lkWriter = [l \in Locks |-> NoThread]
    /\ lkProg = [t \in Threads |-> <<>>] /\ lkMiss = [t \in Threads |-> FALSE]
    /\ lkInstalled = FALSE /\ lkStarted = 0 /\ lkWriterFirst = FALSE

\* CrackDB::new, on a platform of either policy
LockInit ==
    /\ lkReaders = [l \in Locks |-> {}] /\ lkWriter = [l \in Locks |-> NoThread]
    /\ lkProg = [t \in Threads |-> <<>>] /\ lkMiss = [t \in Threads |-> FALSE]
    /\ lkInstalled = FALSE /\ lkStarted = 0 /\ lkWriterFirst \in BOOLEAN

\* thread t is blocked in RwLock::write on the lock
WaitsToWrite(t, lock) ==
    lkProg[t] # <<>> /\ Head(lkProg[t]) = Acq(lock, "write")

\* the next operation of thread t can be made now
CanStep(t) ==
    /\ lkProg[t] # <<>>
    /\ LET Granted(o) ==
               IF o.op # "acq" THEN TRUE
               ELSE IF o.mode = "write"
               THEN lkWriter[o.lock] = NoThread /\ lkReaders[o.lock] = {}
               ELSE /\ lkWriter[o.lock] = NoThread
                    /\ lkWriterFirst => ~\E u \in Threads : WaitsToWrite(u, o.lock)
       IN  Granted(Head(lkProg[t]))

\* a thread begins a statement
LockStart(t, ops) ==
    /\ lkProg[t] = <<>> /\ lkStarted < MaxStatements
    /\ lkStarted' = lkStarted + 1
    /\ lkProg' = [lkProg EXCEPT ![t] = ops]
    /\ UNCHANGED <<lkReaders, lkWriter, lkMiss, lkInstalled, lkWriterFirst>>
    /\ UNCHANGED notLkVars

\* a thread makes the next operation of its statement
LockStep(t) ==
    /\ CanStep(t)
    /\ LET Do(o) ==
               /\ lkReaders' = IF o.op = "acq" /\ o.mode = "read"
                               THEN [lkReaders EXCEPT ![o.lock] = @ \cup {t}]
                               ELSE IF o.op = "rel" THEN [lkReaders EXCEPT ![o.lock] = @ \ {t}]
                               ELSE lkReaders
               /\ lkWriter' = IF o.op = "acq" /\ o.mode = "write"
                              THEN [lkWriter EXCEPT ![o.lock] = t]
                              ELSE IF o.op = "rel" /\ lkWriter[o.lock] = t
                              THEN [lkWriter EXCEPT ![o.lock] = NoThread]
                              ELSE lkWriter
               /\ lkMiss' = IF o.op = "get" THEN [lkMiss EXCEPT ![t] = ~lkInstalled] ELSE lkMiss
               /\ lkInstalled' = (lkInstalled \/ o.op = "insert")
               /\ lkProg' = [lkProg EXCEPT ![t] =
                                IF o.op = "branch" /\ lkMiss[t]
                                THEN AddNewTableOps \o GetOrCreateCsvTable \o Tail(@)
                                ELSE Tail(@)]
       IN  Do(Head(lkProg[t]))
    /\ UNCHANGED <<lkStarted, lkWriterFirst>>
    /\ UNCHANGED notLkVars

LockNext ==
    \E t \in Threads :
        \/ \E ops \in StatementOps : LockStart(t, ops)
        \/ LockStep(t)

(* ----------------------- pipelines of operators ------------------------ *)
\* the operators above the scan
FilterOp(expr) == [kind |-> "Filter", exprs |-> <<expr>>, offset |-> 0, limit |-> LimitAll, opts |-> <<>>]
ProjectionOp(exprs) == [kind |-> "Projection", exprs |-> exprs, offset |-> 0, limit |-> LimitAll, opts |-> <<>>]
LimitOp(offset, limit) == [kind |-> "Limit", exprs |-> <<>>, offset |-> offset, limit |-> limit, opts |-> <<>>]
SortOp(opts) == [kind |-> "Sort", exprs |-> <<>>, offset |-> 0, limit |-> LimitAll, opts |-> opts]
\* exprs holds the aggregator expressions, opts the grouping expressions
HashAggregatorOp(aggregatorExprs, groupingExprs) ==
    [kind |-> "HashAggregator", exprs |-> aggregatorExprs, offset |-> 0, limit |-> LimitAll,
     opts |-> groupingExprs]

\* what a call of next() returns: Ok(Some(row)), Ok(None), Err(e), or a panic
Returned(kind, row) == [kind |-> kind, row |-> row]

\* the fields of a node: the cursor (InMemTableScan.next, Limit.pos), the
\* buffer being filled (Sort.acc_buffer, HashAggregator.buffers), the iterator
\* handed out from (Sort.output_buffer, HashAggregator.iter), the aggregators;
\* and the record of its calls: the calls of next(), how many returned None,
\* how many came after a None, whether a row was returned after a None, and
\* whether a row was returned before the child had returned None
NewNode(acc) ==
    [next |-> 0, acc |-> acc, out |-> NoRows, aggs |-> <<>>,
     calls |-> 0, nones |-> 0, afterNone |-> 0, lateRow |-> FALSE, early |-> FALSE]

\* InMemTableScan::new, Filter::new, Projection::new, Limit::new, Sort::new
\* and HashAggregator::new
NewNodes(plan) ==
    [i \in 1..(Len(plan) + 1) |->
        IF i > 1 /\ plan[i - 1].kind \in {"Sort", "HashAggregator"}
        THEN NewNode(SomeRows(<<>>)) ELSE NewNode(NoRows)]

RECURSIVE SchemaOfNode(_, _)
\* PhysicalPlan::schema of node i
SchemaOfNode(plan, i) ==
    IF i = 1 THEN <<FieldInfo("v", "Int32")>>
    ELSE IF plan[i - 1].kind = "Projection" THEN SchemaOfExprs(plan[i - 1].exprs)
    ELSE IF plan[i - 1].kind = "HashAggregator"
         THEN HashAggregatorSchema(plan[i - 1].exprs, plan[i - 1].opts)
    ELSE SchemaOfNode(plan, i - 1)

RECURSIVE SetupNodes(_, _, _)
\* PhysicalPlan::setup from the scan up to node i: the child is set up first;
\* HashAggregator::setup makes its aggregators and resolves them against the
\* child's schema
SetupNodes(plan, nodes, i) ==
    IF i > Len(nodes) THEN OkRow(nodes)
    ELSE IF i = 1 \/ plan[i - 1].kind # "HashAggregator" THEN SetupNodes(plan, nodes, i + 1)
    ELSE LET Resolved(aggs) ==
                 IF ~aggs.ok THEN aggs ELSE ResolveAggregators(aggs.v, SchemaOfNode(plan, i - 1), 1)
             With(r) ==
                 IF ~r.ok THEN ErrRow(r.err)
                 ELSE SetupNodes(plan, [nodes EXCEPT ![i].aggs = r.v], i + 1)
         IN  With(Resolved(NewAggregators(plan[i - 1].exprs, 1)))

\* the entries of the buffers in the order HashMap::into_iter hands them out
EntriesInOrder(entries, order) ==
    LET Among(ix) == [j \in 1..Len(ix) |-> entries[ix[j]]]
    IN  Among(SelectSeq(order, LAMBDA j : j <= Len(entries)))

\* the record of a call of next() on node i that returned res.r
Noted(plan, i, res) ==
    LET n == res.st[i]
        blocking == i > 1 /\ plan[i - 1].kind \in {"Sort", "HashAggregator"}
    IN  [res EXCEPT !.st[i] =
            [n EXCEPT !.calls = @ + 1,
                      !.afterNone = IF n.nones > 0 THEN @ + 1 ELSE @,
                      !.nones = IF res.r.kind = "none" THEN @ + 1 ELSE @,
                      !.lateRow = @ \/ (res.r.kind = "row" /\ n.nones > 0),
                      !.early = @ \/ (blocking /\ res.r.kind = "row" /\ res.st[i - 1].nones = 0)]]

RECURSIVE CallNext(_, _, _, _), FilterNext(_, _, _, _), LimitNextOver(_, _, _, _),
          SortDrain(_, _, _, _), TryPull(_, _, _, _), HashAggregatorPull(_, _, _, _)

\* Filter::next: rows of the child until one satisfies the expression
FilterNext(plan, st, i, order) ==
    LET Over(c) ==
            IF c.r.kind # "row" THEN c
            ELSE LET Test(b) ==
                         IF ~b.ok \/ ~AsBool(b.v).ok THEN [st |-> c.st, r |-> Returned("err", <<>>)]
                         ELSE IF b.v.val = 1 THEN c
                         ELSE FilterNext(plan, c.st, i, order)
                 IN  Test(Eval(plan[i - 1].exprs[1], c.r.row))
    IN  Over(CallNext(plan, st, i - 1, order))

\* Limit::next: rows of the child are skipped up to the offset; then a row is
\* returned while has_next holds
LimitNextOver(plan, st, i, order) ==
    LET Over(c) ==
            IF c.r.kind # "row" THEN c
            ELSE IF c.st[i].next < plan[i - 1].offset
            THEN LimitNextOver(plan, [c.st EXCEPT ![i].next = @ + 1], i, order)
            ELSE IF HasNext(c.st[i].next, plan[i - 1].offset, plan[i - 1].limit)
            THEN [st |-> [c.st EXCEPT ![i].next = @ + 1], r |-> c.r]
            ELSE [st |-> c.st, r |-> Returned("none", <<>>)]
    IN  Over(CallNext(plan, st, i - 1, order))

\* the loop of Sort::try_pull: every row of the child is pushed to the buffer
SortDrain(plan, st, i, order) ==
    LET Over(c) ==
            IF c.r.kind # "row" THEN c
            ELSE SortDrain(plan, [c.st EXCEPT ![i].acc = SomeRows(Append(@.rows, c.r.row))], i, order)
    IN  Over(CallNext(plan, st, i - 1, order))

\* a try_pull that moves the rows out of acc_buffer and leaves the buffer in place
TryPullKeepingBuffer(plan, st, i, order) ==
    IF ~st[i].acc.some THEN [st |-> st, r |-> Returned("ok", <<>>)]
    ELSE LET Pulled(c) ==
                 IF c.r.kind # "none" THEN c
                 ELSE LET Sorted(b) ==
                              IF b.panic THEN [st |-> c.st, r |-> Returned("panic", <<>>)]
                              ELSE [st |-> [c.st EXCEPT ![i].acc = SomeRows(<<>>),
                                                        ![i].out = SomeRows(b.rows)],
                                    r |-> Returned("ok", <<>>)]
                      IN  Sorted(SortBy(plan[i - 1].opts, c.st[i].acc.rows, Len(c.st[i].acc.rows)))
         IN  Pulled(SortDrain(plan, st, i, order))

\* Sort::try_pull: while acc_buffer is there, the child is drained into it,
\* the rows are sorted and moved to output_buffer; acc_buffer is taken
TryPull(plan, st, i, order) ==
    IF ~st[i].acc.some THEN [st |-> st, r |-> Returned("ok", <<>>)]
    ELSE LET Pulled(c) ==
                 IF c.r.kind # "none" THEN c
                 ELSE LET Sorted(b) ==
                              IF b.panic THEN [st |-> c.st, r |-> Returned("panic", <<>>)]
                              ELSE [st |-> [c.st EXCEPT ![i].acc = NoRows,
                                                        ![i].out = SomeRows(b.rows)],
                                    r |-> Returned("ok", <<>>)]
                      IN  Sorted(SortBy(plan[i - 1].opts, c.st[i].acc.rows, Len(c.st[i].acc.rows)))
         IN  Pulled(SortDrain(plan, st, i, order))

\* the loop of HashAggregator::pull: every row of the child is folded into
\* the entry of its key
HashAggregatorPull(plan, st, i, order) ==
    LET Over(c) ==
            IF c.r.kind # "row" THEN c
            ELSE LET Folded(b) ==
                         IF ~b.ok THEN [st |-> c.st, r |-> Returned("err", <<>>)]
                         ELSE HashAggregatorPull(plan, [c.st EXCEPT ![i].acc = SomeRows(b.v)], i, order)
                 IN  Folded(PullRow(c.st[i].aggs, plan[i - 1].opts, c.st[i].acc.rows, c.r.row))
    IN  Over(CallNext(plan, st, i - 1, order))

\* PhysicalPlan::next of node i
CallNext(plan, st, i, order) ==
    LET \* Iterator::next of the buffered rows
        Pop(s) ==
            IF ~s[i].out.some THEN [st |-> s, r |-> Returned("err", <<>>)]
            ELSE IF s[i].out.rows = <<>> THEN [st |-> s, r |-> Returned("none", <<>>)]
            ELSE [st |-> [s EXCEPT ![i].out = SomeRows(Tail(@.rows))],
                  r |-> Returned("row", Head(s[i].out.rows))]
        \* InMemTableScan::next
        Scan ==
            [st |-> [st EXCEPT ![1].next = @ + 1],
             r |-> IF Len(plTable) > st[1].next THEN Returned("row", plTable[st[1].next + 1])
                   ELSE Returned("none", <<>>)]
        \* Projection::next
        Projection ==
            LET Over(c) ==
                    IF c.r.kind # "row" THEN c
                    ELSE LET Cells(cs) ==
                                 [st |-> c.st,
                                  r |-> IF cs.ok THEN Returned("row", cs.v) ELSE Returned("err", <<>>)]
                         IN  Cells(EvalAll(plan[i - 1].exprs, c.r.row, 1))
            IN  Over(CallNext(plan, st, i - 1, order))
        \* Sort::next: try_pull, then try_push
        Sort ==
            LET Pulled(c) == IF c.r.kind # "ok" THEN c ELSE Pop(c.st)
            IN  Pulled(TryPull(plan, st, i, order))
        \* HashAggregator::try_push
        Push(c) ==
            IF c.r.kind # "row" THEN c
            ELSE LET Results(rs) ==
                         [st |-> c.st,
                          r |-> IF rs.ok THEN Returned("row", PushedRow(c.r.row.key, rs.v))
                                ELSE Returned("err", <<>>)]
                 IN  Results(AggregatorResults(st[i].aggs, c.r.row.rows, 1))
        \* HashAggregator::next: pull if there is no iterator yet, then try_push
        HashAggregator ==
            IF st[i].out.some THEN Push(Pop(st))
            ELSE LET Pulled(c) ==
                         IF c.r.kind # "none" THEN c
                         ELSE Push(Pop([c.st EXCEPT ![i].acc = NoRows,
                                                    ![i].out = SomeRows(EntriesInOrder(c.st[i].acc.rows, order))]))
                 IN  Pulled(HashAggregatorPull(plan, st, i, order))
    IN  Noted(plan, i,
              IF i = 1 THEN Scan
              ELSE CASE plan[i - 1].kind = "Filter" -> FilterNext(plan, st, i, order)
                     [] plan[i - 1].kind = "Projection" -> Projection
                     [] plan[i - 1].kind = "Limit" -> LimitNextOver(plan, st, i, order)
                     [] plan[i - 1].kind = "Sort" -> Sort
                     [] plan[i - 1].kind = "HashAggregator" -> HashAggregator)

\* the rows of the table and the operators of the model
PipeColumn == FieldRef("v", 0, "Int32")
PipeTables == SeqsUpTo({<<Int32Lit(v)>> : v \in 1..MaxVal}, MaxRows)
PipeOperators ==
    {FilterOp(BinaryOp("Gt", PipeColumn, LiteralExpr(Int32Lit(1)))),
     ProjectionOp(<<PipeColumn>>),
     LimitOp(0, LimitNum(1)), LimitOp(1, LimitAll),
     SortOp(<<SortOption(PipeColumn, FALSE)>>),
     HashAggregatorOp(<<Function("max", PipeColumn)>>, <<PipeColumn>>),
     HashAggregatorOp(<<Function("count", Wildcard)>>, <<>>)}
PipePlans == SeqsUpTo(PipeOperators, MaxDepth) \ {<<>>}

PipeIdle ==
    /\ plTable = <<>> /\ plPlan = <<>> /\ plState = <<>> /\ plStatus = "new"
    /\ plCalls = 0 /\ plOut = <<>>

\* SelectHandler::planning
PipeInit ==
    /\ plTable \in PipeTables /\ plPlan \in PipePlans
    /\ plState = NewNodes(plPlan) /\ plStatus = "new" /\ plCalls = 0 /\ plOut = <<>>

\* plan.setup()
PipeSetup ==
    /\ plStatus = "new"
    /\ LET Set(r) ==
               IF r.ok THEN plState' = r.v /\ plStatus' = "ready"
               ELSE plState' = plState /\ plStatus' = "err"
       IN  Set(SetupNodes(plPlan, plState, 1))
    /\ UNCHANGED <<plTable, plPlan, plCalls, plOut>>
    /\ UNCHANGED notPlVars

\* a call of next() on the root, also after it has returned None
PipeNext ==
    /\ plStatus = "ready" /\ plCalls < MaxCalls
    /\ \E order \in Permutations(1..MaxRows) :
          LET Done(res) ==
                  /\ plState' = res.st
                  /\ plStatus' = IF res.r.kind \in {"err", "panic"} THEN res.r.kind ELSE plStatus
                  /\ plOut' = IF res.r.kind = "row" THEN Append(plOut, res.r.row) ELSE plOut
          IN  Done(CallNext(plPlan, plState, Len(plPlan) + 1, order))
    /\ plCalls' = plCalls + 1
    /\ UNCHANGED <<plTable, plPlan>>
    /\ UNCHANGED notPlVars

PipeStep == PipeSetup \/ PipeNext

(* --------------------------- specifications ---------------------------- *)
\* every specification starts the operators it does not run as constructed
InitLimit == overflowChecks = TRUE /\ LimitInit /\ SortIdle /\ AggIdle /\ DbIdle /\ OptIdle /\ CatIdle /\ CsvIdle /\ EvalIdle /\ TransformIdle /\ CastIdle /\ ResolveIdle /\ LockIdle /\ PipeIdle
SpecLimit == InitLimit /\ [][LimitNext]_vars

InitSort == overflowChecks = TRUE /\ LimitIdle /\ SortInit /\ AggIdle /\ DbIdle /\ OptIdle /\ CatIdle /\ CsvIdle /\ EvalIdle /\ TransformIdle /\ CastIdle /\ ResolveIdle /\ LockIdle /\ PipeIdle
SpecSort == InitSort /\ [][SortNext]_vars

InitSortMixed == overflowChecks = TRUE /\ LimitIdle /\ SortMixedInit /\ AggIdle /\ DbIdle /\ OptIdle /\ CatIdle /\ CsvIdle /\ EvalIdle /\ TransformIdle /\ CastIdle /\ ResolveIdle /\ LockIdle /\ PipeIdle
SpecSortMixed == InitSortMixed /\ [][SortNext]_vars

InitAgg == overflowChecks = TRUE /\ LimitIdle /\ SortIdle /\ AggInit /\ DbIdle /\ OptIdle /\ CatIdle /\ CsvIdle /\ EvalIdle /\ TransformIdle /\ CastIdle /\ ResolveIdle /\ LockIdle /\ PipeIdle
NextAgg == AggSetup \/ AggNext
SpecAgg == InitAgg /\ [][NextAgg]_vars

InitDB == overflowChecks = TRUE /\ LimitIdle /\ SortIdle /\ AggIdle /\ DbInit /\ OptIdle /\ CatIdle /\ CsvIdle /\ EvalIdle /\ TransformIdle /\ CastIdle /\ ResolveIdle /\ LockIdle /\ PipeIdle
SpecDB == InitDB /\ [][DbNext]_vars

InitOpt == overflowChecks = TRUE /\ LimitIdle /\ SortIdle /\ AggIdle /\ DbIdle /\ OptInit /\ CatIdle /\ CsvIdle /\ EvalIdle /\ TransformIdle /\ CastIdle /\ ResolveIdle /\ LockIdle /\ PipeIdle
SpecOpt == InitOpt /\ [][OptNext]_vars

InitCat == overflowChecks = TRUE /\ LimitIdle /\ SortIdle /\ AggIdle /\ DbIdle /\ OptIdle /\ CatInit /\ CsvIdle /\ EvalIdle /\ TransformIdle /\ CastIdle /\ ResolveIdle /\ LockIdle /\ PipeIdle
SpecCat == InitCat /\ [][CatNext]_vars

InitCsv == overflowChecks = TRUE /\ LimitIdle /\ SortIdle /\ AggIdle /\ DbIdle /\ OptIdle /\ CatIdle /\ CsvInit /\ EvalIdle /\ TransformIdle /\ CastIdle /\ ResolveIdle /\ LockIdle /\ PipeIdle
SpecCsv == InitCsv /\ [][CsvScanNext]_vars

InitEval == overflowChecks = TRUE /\ LimitIdle /\ SortIdle /\ AggIdle /\ DbIdle /\ OptIdle /\ CatIdle /\ CsvIdle /\ EvalInit /\ TransformIdle /\ CastIdle /\ ResolveIdle /\ LockIdle /\ PipeIdle
SpecEval == InitEval /\ [][EvalCall]_vars

InitTransform == overflowChecks = TRUE /\ LimitIdle /\ SortIdle /\ AggIdle /\ DbIdle /\ OptIdle /\ CatIdle /\ CsvIdle /\ EvalIdle /\ TransformInit /\ CastIdle /\ ResolveIdle /\ LockIdle /\ PipeIdle
SpecTransform == InitTransform /\ [][TransformNext]_vars

InitArith == overflowChecks \in BOOLEAN /\ LimitIdle /\ SortIdle /\ AggIdle /\ DbIdle /\ OptIdle /\ CatIdle /\ CsvIdle /\ ArithInit /\ TransformIdle /\ CastIdle /\ ResolveIdle /\ LockIdle /\ PipeIdle
SpecArith == InitArith /\ [][EvalCall]_vars

InitCast == overflowChecks = TRUE /\ LimitIdle /\ SortIdle /\ AggIdle /\ DbIdle /\ OptIdle /\ CatIdle /\ CsvIdle /\ EvalIdle /\ TransformIdle /\ CastInit /\ ResolveIdle /\ LockIdle /\ PipeIdle
SpecCast == InitCast /\ [][CastCall]_vars

InitResolve == overflowChecks = TRUE /\ LimitIdle /\ SortIdle /\ AggIdle /\ DbIdle /\ OptIdle /\ CatIdle /\ CsvIdle /\ EvalIdle /\ TransformIdle /\ CastIdle /\ ResolveInit /\ LockIdle /\ PipeIdle
SpecResolve == InitResolve /\ [][ResolveCall]_vars

InitLock == overflowChecks = TRUE /\ LimitIdle /\ SortIdle /\ AggIdle /\ DbIdle /\ OptIdle /\ CatIdle /\ CsvIdle /\ EvalIdle /\ TransformIdle /\ CastIdle /\ ResolveIdle /\ LockInit /\ PipeIdle
SpecLock == InitLock /\ [][LockNext]_vars

InitPipe == overflowChecks = TRUE /\ LimitIdle /\ SortIdle /\ AggIdle /\ DbIdle /\ OptIdle /\ CatIdle /\ CsvIdle /\ EvalIdle /\ TransformIdle /\ CastIdle /\ ResolveIdle /\ LockIdle /\ PipeInit
SpecPipe == InitPipe /\ [][PipeStep]_vars

(* ------------------------- properties: Limit --------------------------- *)
\* the rows LIMIT n OFFSET m is to yield from a child of length L
LimitWindow ==
    LET L == Len(limChild)
        m == limOffset
    IN  IF L <= m THEN <<>>
        ELSE SubSeq(limChild, m + 1, m + (IF limLimit.all THEN L - m ELSE Min2(limLimit.n, L - m)))

\* C7: Limit emits exactly the child rows at positions m .. m+min(n, L-m)-1,
\* in child order, when L > m and no row when L <= m or n = 0; with limit All
\* it emits every child row from position m on.  At any moment the rows
\* emitted so far are a prefix of that window, and once next() has returned
\* None they are the whole window.
C7_LimitEmitsWindow ==
    /\ IsPrefix(limOut, LimitWindow)
    /\ limEnded => limOut = LimitWindow

\* a run that skipped rows, passed n > 0 rows and then cut the child short
C7_Witness ==
    /\ limEnded /\ ~limLimit.all
    /\ limOffset > 0 /\ limLimit.n > 0
    /\ Len(limChild) - limOffset > limLimit.n
    /\ Len(limOut) = limLimit.n

(* -------------------------- properties: Sort --------------------------- *)
\* the value of the column a sort option names
SortKey(option, row) == row[option.expr.index + 1].val

\* row r1 may stand before row r2: at the first option on which they differ
\* r1 is smaller (ASC) or larger (DESC)
InSortOrder(r1, r2) ==
    \A k \in 1..Len(srtOpts) :
        (\A j \in 1..(k - 1) : SortKey(srtOpts[j], r1) = SortKey(srtOpts[j], r2))
            => IF srtOpts[k].asc
               THEN SortKey(srtOpts[k], r1) <= SortKey(srtOpts[k], r2)
               ELSE SortKey(srtOpts[k], r1) >= SortKey(srtOpts[k], r2)

SortTie(r1, r2) == \A k \in 1..Len(srtOpts) : SortKey(srtOpts[k], r1) = SortKey(srtOpts[k], r2)

\* C8: Sort emits a permutation of its child's rows in which every two
\* consecutive rows are in order under the lexicographic comparison of the
\* sort options (ASC non-decreasing, DESC non-increasing, a later option
\* deciding only among rows equal on all earlier ones), and rows equal under
\* all options keep their child order (the third column is the child position).
C8_SortOrdersStably ==
    (srtEnded /\ srtStatus = "ok") =>
        /\ Len(srtOut) = Len(srtChild)
        /\ \A i \in 1..Len(srtChild) : \E j \in 1..Len(srtOut) : srtOut[j] = srtChild[i]
        /\ \A i \in 1..(Len(srtOut) - 1) :
              /\ InSortOrder(srtOut[i], srtOut[i + 1])
              /\ SortTie(srtOut[i], srtOut[i + 1]) => srtOut[i][3].val < srtOut[i + 1][3].val

\* a finished sort on two options, the first DESC, that moved rows, had a
\* tie to keep in child order and a pair the second option decided
C8_Witness ==
    /\ srtEnded /\ srtStatus = "ok"
    /\ Len(srtOpts) = 2 /\ ~srtOpts[1].asc
    /\ Len(srtOut) = MaxRows /\ srtOut # srtChild
    /\ \E i \in 1..(Len(srtOut) - 1) : SortTie(srtOut[i], srtOut[i + 1])
    /\ \E i \in 1..(Len(srtOut) - 1) :
          /\ SortKey(srtOpts[1], srtOut[i]) = SortKey(srtOpts[1], srtOut[i + 1])
          /\ SortKey(srtOpts[2], srtOut[i]) # SortKey(srtOpts[2], srtOut[i + 1])

(* --------------------- properties: HashAggregator ---------------------- *)
\* the positions of the child rows whose grouping value is that of key
RowsOfKey(key) ==
    {i \in 1..Len(aggChild) : aggGroupingExprs = <<>> \/ aggChild[i][1] = key[1]}

RECURSIVE SumOver(_)
SumOver(positions) ==
    IF positions = {} THEN 0
    ELSE LET i == CHOOSE x \in positions : TRUE
         IN  aggChild[i][2].val + SumOver(positions \ {i})

MaxOver(positions) == CHOOSE m \in {aggChild[i][2].val : i \in positions} :
                          \A i \in positions : aggChild[i][2].val <= m

\* C2: for every grouping key, the value each aggregator finalizes equals
\* the fold of its update step over all child rows with that key, the row
\* that created the group included: sum is the sum of the argument over all
\* rows of the group, count their number, max their largest value.
C2_FoldsEveryRowOfGroup ==
    \A i \in 1..Len(aggPushed) :
        /\ Len(aggPushed[i].results) = Len(aggAggregatorExprs)
        /\ \A j \in 1..Len(aggAggregatorExprs) :
              LET rows == RowsOfKey(aggPushed[i].key)
                  name == aggAggregatorExprs[j].name
                  value == aggPushed[i].results[j]
              IN  /\ rows # {}
                  /\ name = "sum" => value = Int32Lit(SumOver(rows))
                  /\ name = "count" => value = UInt64Lit(Cardinality(rows))
                  /\ name = "max" => value = Int32Lit(MaxOver(rows))

\* a group of several rows, among other groups, finalized for sum and count
C2_Witness ==
    /\ aggGroupingExprs # <<>> /\ Len(aggAggregatorExprs) = 2
    /\ Len(aggPushed) >= 2
    /\ \E i \in 1..Len(aggPushed) : Cardinality(RowsOfKey(aggPushed[i].key)) >= 2

\* C3: every row HashAggregator emits, and the schema it reports, list the
\* grouping values first and the finalized aggregators after them, as the
\* schema of the logical Aggregator node (aggregator_schema) does.
C3_GroupingsFirst ==
    /\ \A i \in 1..Len(aggOut) : aggOut[i] = aggPushed[i].key \o aggPushed[i].results
    /\ aggStatus = "ready" =>
          HashAggregatorSchema(aggAggregatorExprs, aggGroupingExprs)
              = AggregatorSchema(aggGroupingExprs, aggAggregatorExprs)

\* the grouping keys of the child's rows
DistinctKeys ==
    {IF aggGroupingExprs = <<>> THEN <<>> ELSE <<aggChild[i][1]>> : i \in 1..Len(aggChild)}

\* C4: HashAggregator emits exactly one row per distinct grouping key of its
\* child's rows (keys are equal iff of equal length and position-wise equal
\* literals of one tag); with no groupings that is one row for a non-empty
\* child and none for an empty child.
C4_OneRowPerKey ==
    /\ \A i, j \in 1..Len(aggPushed) : i # j => aggPushed[i].key # aggPushed[j].key
    /\ {aggPushed[i].key : i \in 1..Len(aggPushed)} \subseteq DistinctKeys
    /\ (aggEnded /\ aggStatus = "ready") =>
          /\ Len(aggOut) = Cardinality(DistinctKeys)
          /\ {aggPushed[i].key : i \in 1..Len(aggPushed)} = DistinctKeys

\* a finished aggregation whose child repeats a key and has a NULL key too
C4_Witness ==
    /\ aggEnded /\ aggStatus = "ready" /\ aggGroupingExprs # <<>>
    /\ Len(aggChild) = MaxRows /\ Len(aggOut) = 2
    /\ \E i \in 1..Len(aggPushed) : aggPushed[i].key = <<NullLit>>

(* ----------------------- properties: table, scan ----------------------- *)
\* C9: after an INSERT has returned Ok, every SELECT that begins later sees
\* all rows of all earlier successful INSERTs, in insertion order (statement
\* order, then the order of the VALUES list): the table holds exactly the
\* rows of the successful INSERTs in the order they returned, a later insert
\* drops or reorders none, and the rows a finished scan returned start with
\* the rows of the INSERTs that had returned when the SELECT began.
C9_InsertsVisibleInOrder ==
    /\ PrintedRows(tblData) = dbLog
    /\ \A t \in Threads :
          /\ dbResult[t] = "rows" => IsPrefix(selLogAtStart[t], PrintedRows(selOut[t]))
          /\ dbPc[t] = "select_scan" =>
                \/ IsPrefix(PrintedRows(selOut[t]), selLogAtStart[t])
                \/ IsPrefix(selLogAtStart[t], PrintedRows(selOut[t]))

\* a SELECT that began after two INSERTs had returned, and returned their rows
C9_Witness ==
    \E t \in Threads :
        /\ dbResult[t] = "rows"
        /\ Len(selLogAtStart[t]) >= 3
        /\ Len(selOut[t]) >= 3
        /\ selLogAtStart[t][1] # selLogAtStart[t][2]

\* C10: an in-memory scan returns exactly the rows the table held when its
\* setup() returned: rows another thread inserts after setup() and before
\* the scan is exhausted are not returned; and setup() does not keep the
\* table's read lock, so the scanning thread holds no guard that would block
\* a writer.
C10_ScanServesSetupSnapshot ==
    \A t \in Threads :
        /\ dbPc[t] = "select_scan" =>
              /\ t \notin tblReaders
              /\ IsPrefix(PrintedRows(selOut[t]), scanLogAtSetup[t])
        /\ dbResult[t] = "rows" => PrintedRows(selOut[t]) = scanLogAtSetup[t]

\* a scan that finished after another thread had inserted rows while it ran
C10_Witness ==
    \E t \in Threads :
        /\ dbResult[t] = "rows" /\ dbPc[t] = "idle"
        /\ Len(selOut[t]) >= 1
        /\ Len(dbLog) > Len(scanLogAtSetup[t])

(* ----------------------- properties: optimizer ------------------------- *)
RECURSIVE PlanNodes(_)
\* the nodes of a plan, the root first
PlanNodes(p) == IF p.child = <<>> THEN <<p>> ELSE <<p>> \o PlanNodes(p.child[1])

\* every expression a node holds
NodeExprs(n) == n.exprs \o n.groupings

RECURSIVE ExprIsResolved(_)
\* nothing unresolved and nothing of type Unknown in the expression
ExprIsResolved(e) ==
    /\ e.kind \notin {"UnResolvedFieldRef", "UnResolvedFunction"}
    /\ e.kind = "Literal" => e.lit.tag \notin {"UnResolvedNumber", "UnResolvedString"}
    /\ DataTypeOf(e) # "Unknown"
    /\ \A i \in 1..Len(e.args) : ExprIsResolved(e.args[i])

\* C1: whenever optimize returned Ok, no expression of any node of the plan
\* holds an unresolved literal, field reference or function, and no
\* expression node has data type Unknown.
C1_NoUnresolvedAfterOptimize ==
    \A r \in Runs :
        optStatus[r] = "ok" =>
            \A n \in Range(PlanNodes(optPlan[r])) :
                \A e \in Range(NodeExprs(n)) : ExprIsResolved(e)

\* C5: whenever optimize returned Ok, every expression in the aggregators
\* of every Aggregator node is an aggregator of the function registry; no
\* column or grouping expression is among them.
C5_AggregatorsAreAggregators ==
    \A r \in Runs :
        optStatus[r] = "ok" =>
            \A n \in Range(PlanNodes(optPlan[r])) :
                n.kind = "Aggregator" =>
                    \A i \in 1..Len(n.exprs) :
                        IsAggregator(n.exprs[i]) /\ n.exprs[i].kind = "Function"

\* an optimized plan whose Aggregator took two pushed aggregators beside
\* its grouping
C5_Witness ==
    \E r \in Runs :
        /\ optStatus[r] = "ok"
        /\ \E n \in Range(PlanNodes(optPlan[r])) :
              n.kind = "Aggregator" /\ Len(n.exprs) >= 2 /\ n.groupings # <<>>

\* C6: two runs of optimize on the same plan that both return Ok return
\* the same plan, whatever order the map of collected aggregators hands
\* them out in.
C6_OptimizeIsDeterministic ==
    (optStatus[1] = "ok" /\ optStatus[2] = "ok") => optPlan[1] = optPlan[2]

\* a statement with a VALUES row that has fewer or more values than the
\* table has columns
HasArityMismatch(rows) == \E i \in 1..Len(rows) : Len(rows[i]) # Len(TableSchema)

\* C11: an INSERT with a VALUES row whose number of values differs from the
\* number of columns of the table is rejected with an error and stores
\* nothing, and every stored row has exactly as many values as the schema
\* has fields.
C11_ArityMismatchRejected ==
    /\ [](\A i \in 1..Len(tblData) : Len(tblData[i]) = Len(TableSchema))
    /\ [][\A t \in Threads : \A rows \in InsertStatements :
             (InsertConvert(t, rows) /\ HasArityMismatch(rows)) =>
                 (dbResult'[t] \notin {"none", "ok", "rows"} /\ dbPc'[t] = "idle")]_vars

(* ------------------------- properties: catalog ------------------------- *)
\* C12: a lookup of a registered name returns the registered table; a
\* lookup of an unregistered name ending in ".csv" (in any case) returns a
\* table that is installed under the name, and the name stays mapped to that
\* table, so that later lookups return it; a lookup of any other
\* unregistered name returns TableNotFound and leaves the map as it was.
C12_LookupReturnsInstalledTable ==
    /\ [](\A t \in Threads :
            catResult[t].kind # "none" =>
                IF catResult[t].kind = "table"
                THEN catTables[catName[t]] = catResult[t].id
                ELSE /\ catResult[t].kind = "TableNotFound"
                     /\ ~IsCsvPath(catName[t])
                     /\ catTables[catName[t]] = NoTable)
    /\ [][\A t \in Threads :
             (GetOrCreateTable(t) /\ catResult'[t].kind = "TableNotFound") =>
                 catTables' = catTables]_vars

(* ------------------------ properties: csv scan ------------------------- *)
\* C13: ParserError and TableNotFound come from the compile stage only: no
\* setup() or next() of the csv scan returns one of them, whatever the cells
\* of the file hold.
C13_NoParserErrorInExecution ==
    csvErrStage \in {"setup", "next"} => csvErr \notin {"ParserError", "TableNotFound"}

(* ----------------------- properties: interpreter ----------------------- *)
RECURSIVE ContainsUnresolved(_)
\* the expression holds an UnResolvedFieldRef, an UnResolvedFunction or a
\* Wildcard
ContainsUnresolved(e) ==
    \/ e.kind \in {"UnResolvedFieldRef", "UnResolvedFunction", "Wildcard"}
    \/ \E i \in 1..Len(e.args) : ContainsUnresolved(e.args[i])

\* C14: eval of an expression that holds an UnResolvedFieldRef, an
\* UnResolvedFunction or a Wildcard returns InterpretingError, for every
\* row: no value, no error of another kind, no abort.
C14_UnresolvedIsInterpretingError ==
    (evDone /\ ContainsUnresolved(evExpr)) =>
        (~evResult.ok /\ evResult.err = "InterpretingError")

(* ------------------------- properties: avg ----------------------------- *)
\* C15: for a group of k >= 1 rows avg(arg) finalizes to the Float64
\* (sum of arg over the group) / k; setup and every update succeed whatever
\* numeric type the argument has, an Int32 column included.
C15_AvgOfEveryNumericType ==
    (aggAggregatorExprs = <<Function("avg", AggValueColumn)>>) =>
        /\ aggStatus # "err"
        /\ \A i \in 1..Len(aggPushed) :
              LET rows == RowsOfKey(aggPushed[i].key)
              IN  aggPushed[i].results =
                      <<Float64Lit(TruncDiv(SumOver(rows) * FloatScale, Cardinality(rows)))>>
        /\ (aggEnded /\ aggChild # <<>>) => aggPushed # <<>>

(* ------------------- properties: pushed-down aggregators --------------- *)
RECURSIVE FieldRefsPointInto(_, _)
\* every FieldRef of the expression has an index inside the schema, and the
\* field at that index carries the FieldRef's name
FieldRefsPointInto(e, schema) ==
    /\ e.kind = "FieldRef" =>
          (e.index < Len(schema) /\ schema[e.index + 1].name = e.name)
    /\ \A i \in 1..Len(e.args) : FieldRefsPointInto(e.args[i], schema)

\* the FieldRefs of the Filter, Projection and Sort nodes of the plan point
\* into the output schema of the node's child
PlanFieldRefsValid(p) ==
    \A n \in Range(PlanNodes(p)) :
        (n.kind \in {"Filter", "Projection", "Sort"} /\ PlanSchema(n.child[1]).ok) =>
            \A e \in Range(n.exprs) : FieldRefsPointInto(e, PlanSchema(n.child[1]).v)

SchemaNames(p) ==
    IF PlanSchema(p).ok
    THEN [i \in 1..Len(PlanSchema(p).v) |-> PlanSchema(p).v[i].name]
    ELSE <<PlanSchema(p).err>>

\* C17: an application of PushDownAggregators leaves the output schema of
\* the plan's root as it was: as many fields, of the same names, in the same
\* order; the aggregators of a Sort or HAVING node pushed into the child do
\* not show up as result columns.
C17_PushDownKeepsRootSchema ==
    [][(/\ optStatus[optRun] = "running"
        /\ AllRules[optStage][optRule] = "PushDownAggregators"
        /\ optStatus'[optRun] # "err")
       => (/\ PlanSchema(optPlan[optRun]).ok
           /\ SchemaNames(optPlan'[optRun]) = SchemaNames(optPlan[optRun]))]_vars

\* PushDownAggregators has just pushed the aggregators of a Sort into its
\* child and wrapped the Sort in a Projection
C17_Witness ==
    /\ optStatus[optRun] = "running" /\ optStage = 1 /\ optRule = 1 /\ optPasses >= 2
    /\ \E i \in 1..(Len(PlanNodes(optPlan[optRun])) - 1) :
          /\ PlanNodes(optPlan[optRun])[i].kind = "Projection"
          /\ PlanNodes(optPlan[optRun])[i + 1].kind = "Sort"
          /\ PlanNodes(optPlan[optRun])[i + 1].exprs[1].kind = "FieldRef"

(* ---------------------- properties: termination ------------------------ *)
\* how far the two calls of optimize have got: the call, the stage, the pass
\* over the stage and the rule within the pass, in lexicographic order
OptProgress ==
    ((optRun * (Len(AllRules) + 1) + optStage) * (MaxPasses + 1) + optPasses)
        * (Len(AllRules[1]) + Len(AllRules[2])) + optRule

RECURSIVE RewriteTopDown(_, _)
\* the tree a top-down rewrite yields: the visitor's replacement for the
\* node (the node itself when there is none) over the rewrites of its
\* children
RewriteTopDown(visitor, e) ==
    LET Over(node) ==
            [node EXCEPT !.args = [j \in 1..Len(node.args) |-> RewriteTopDown(visitor, node.args[j])]]
    IN  Over(IF Visit(visitor, e).some THEN Visit(visitor, e).v ELSE e)

\* C19: transform_top_down visits every child of a replacement the visitor
\* returned, and the tree it returns holds the rewrite of every child the
\* visitor changed, also when other children of the replacement are left
\* unchanged.
C19_TopDownKeepsEveryRewrite ==
    trCalled = "top_down" =>
        /\ (IF trResult.some THEN trResult.v ELSE trExpr) = RewriteTopDown(trVisitor, trExpr)
        /\ \A i \in 1..Len(trVisits) :
              Visit(trVisitor, trVisits[i]).some =>
                  Range(Visit(trVisitor, trVisits[i]).v.args) \subseteq Range(trVisits)

RECURSIVE RewriteBottomUp(_, _)
\* the tree a bottom-up rewrite yields: the node over the rewrites of its
\* children, or what the visitor makes of that
RewriteBottomUp(visitor, e) ==
    LET Made(node) == IF Visit(visitor, node).some THEN Visit(visitor, node).v ELSE node
    IN  Made([e EXCEPT !.args = [j \in 1..Len(e.args) |-> RewriteBottomUp(visitor, e.args[j])]])

RECURSIVE PostOrder(_, _)
RECURSIVE PostOrderOfAll(_, _, _)
\* the nodes in post-order, each over the rewrites of its children
PostOrder(visitor, e) ==
    PostOrderOfAll(visitor, e.args, 1)
        \o <<[e EXCEPT !.args = [j \in 1..Len(e.args) |-> RewriteBottomUp(visitor, e.args[j])]]>>

PostOrderOfAll(visitor, children, i) ==
    IF i > Len(children) THEN <<>>
    ELSE PostOrder(visitor, children[i]) \o PostOrderOfAll(visitor, children, i + 1)

RECURSIVE NodeCount(_)
RECURSIVE NodeCountOfAll(_, _)
\* the number of nodes of a tree
NodeCount(e) == 1 + NodeCountOfAll(e.args, 1)

NodeCountOfAll(children, i) ==
    IF i > Len(children) THEN 0
    ELSE NodeCount(children[i]) + NodeCountOfAll(children, i + 1)

\* C20: transform_bottom_up calls the visitor once on every node, in
\* post-order, a parent being presented over its rewritten children; it
\* returns None exactly when the visitor returned None at every node; and
\* what it returns is the rewritten tree, which holds a node rebuilt over its
\* new children where the visitor returned None for it.
C20_BottomUpVisitsOnceInPostOrder ==
    trCalled = "bottom_up" =>
        /\ Len(trVisits) = NodeCount(trExpr)
        /\ trVisits = PostOrder(trVisitor, trExpr)
        /\ trResult.some <=> (\E i \in 1..Len(trVisits) : Visit(trVisitor, trVisits[i]).some)
        /\ trResult.some => trResult.v = RewriteBottomUp(trVisitor, trExpr)

\* a call on a negated sum in which the visitor changed a leaf and returned
\* None for the sum and for the negation above it
C20_Witness ==
    /\ trCalled = "bottom_up" /\ trExpr.kind = "UnaryOp" /\ Len(trVisits) = 4
    /\ trResult.some /\ trResult.v.kind = "UnaryOp" /\ trResult.v # trExpr
    /\ ~Visit(trVisitor, trVisits[3]).some /\ ~Visit(trVisitor, trVisits[4]).some
    /\ \E i \in 1..2 : Visit(trVisitor, trVisits[i]).some

(* -------------------------- properties: casts -------------------------- *)
\* the parts of a decimal text: sign, digits before the '.', digits after it
TextNegative(cs) == cs # <<>> /\ Head(cs) = "-"
TextBody(cs) == IF TextNegative(cs) THEN Tail(cs) ELSE cs
TextWhole(cs) ==
    IF DotIndex(TextBody(cs), 1) = 0 THEN TextBody(cs)
    ELSE SubSeq(TextBody(cs), 1, DotIndex(TextBody(cs), 1) - 1)
TextFraction(cs) ==
    IF DotIndex(TextBody(cs), 1) = 0 THEN <<>>
    ELSE SubSeq(TextBody(cs), DotIndex(TextBody(cs), 1) + 1, Len(TextBody(cs)))

\* a text with a '.' and a fractional part that is not zero
HasNonzeroFraction(cs) ==
    /\ DotIndex(TextBody(cs), 1) # 0
    /\ AllDigits(TextWhole(cs)) /\ AllDigits(TextFraction(cs))
    /\ \E i \in 1..Len(TextFraction(cs)) : TextFraction(cs)[i] # "0"

\* a text that denotes an integer: digits, then nothing, or a '.' followed by
\* zeros only or by nothing
DenotesInteger(cs) ==
    /\ TextWhole(cs) # <<>> /\ AllDigits(TextWhole(cs))
    /\ \A i \in 1..Len(TextFraction(cs)) : TextFraction(cs)[i] = "0"

IntegerDenoted(cs) ==
    IF TextNegative(cs) THEN -DigitsValue(TextWhole(cs), 0) ELSE DigitsValue(TextWhole(cs), 0)

\* the 64-bit type that carries a value too wide for the target
CarrierOf(dt) == IF dt \in {"UInt8", "UInt16", "UInt32", "UInt64"} THEN "UInt64" ELSE "Int64"

\* C21: cast_or_maintain_precision of an unresolved number against an
\* integral target: a text with a '.' and a nonzero fractional part yields a
\* Float64 literal; every other text that denotes an integer, a text with a
\* '.' followed only by zeros or by nothing included, yields a literal of the
\* target type (of the 64-bit carrier when the value does not fit the target)
\* that holds the integer.  Signed texts are left out for unsigned targets.
C21_IntegerTextCastsToTarget ==
    (castDone /\ IsInteger(castType)) =>
        /\ HasNonzeroFraction(castText) =>
              (castResult.ok /\ castResult.some /\ castResult.v.tag = "Float64")
        /\ (/\ DenotesInteger(castText)
            /\ CarrierOf(castType) = "UInt64" => ~TextNegative(castText))
           => /\ castResult.ok /\ castResult.some
              /\ castResult.v.val = IntegerDenoted(castText)
              /\ castResult.v.tag = IF Fits(castType, IntegerDenoted(castText))
                                    THEN castType ELSE CarrierOf(castType)

(* ------------------------ properties: arithmetic ----------------------- *)
\* the mathematically exact result of l op r, the quotient truncated toward
\* zero; 0 stands in for the quotient of a division by zero
ExactResult(op, l, r) ==
    CASE op = "Plus" -> l + r
      [] op = "Minus" -> l - r
      [] op = "Multiply" -> l * r
      [] op = "Divide" -> IF r = 0 THEN 0 ELSE TruncDiv(l, r)

\* the tagged errors of DBError
DBErrors == {"ParserError", "InterpretingError", "TableNotFound", "StorageEngine", "Unknown"}

\* C22: for two operands of one integer tag, eval of + - * / returns a literal
\* of that tag holding the exact result, or a tagged DBError; when the exact
\* result does not fit the width or the divisor is zero it returns an error,
\* never a wrapped value and never an abort.  For operands of different tags
\* it returns an interpreting error.
C22_IntegerArithmeticExactOrError ==
    (evDone /\ evExpr.kind = "BinaryOp" /\ evExpr.name \in ArithOps
            /\ evExpr.args[1].kind = "Literal" /\ evExpr.args[2].kind = "Literal") =>
        LET Holds(op, l, r) ==
                IF l.tag # r.tag THEN ~evResult.ok /\ evResult.err = "InterpretingError"
                ELSE IF l.tag \notin IntegerTags THEN TRUE
                ELSE IF (op = "Divide" /\ r.val = 0) \/ ~Fits(l.tag, ExactResult(op, l.val, r.val))
                THEN ~evResult.ok /\ evResult.err \in DBErrors
                ELSE /\ evResult.ok
                     /\ evResult.v = Lit(l.tag, ExactResult(op, l.val, r.val), <<>>)
        IN  Holds(evExpr.name, evExpr.args[1].lit, evExpr.args[2].lit)

(* ---------------------- properties: csv inference ---------------------- *)
\* the type of one value of a csv file
ValueType(field) ==
    IF ToLowercase(field) \in {<<"t", "r", "u", "e">>, <<"f", "a", "l", "s", "e">>} THEN "Boolean"
    ELSE IF ParseSigned(field).ok THEN "Int64"
    ELSE IF ParseFloat(field).ok THEN "Float64"
    ELSE "String"

\* the height of a type in the lattice Bool|Int < Float < String
LatticeLevel(dt) ==
    CASE dt \in {"Boolean", "Int64"} -> 1 [] dt = "Float64" -> 2 [] dt = "String" -> 3 [] OTHER -> 0

\* the rows the schema is inferred from
SampledRows(records) == SubSeq(records, 1, Min2(Len(records), NUM_RECORDS_TO_INFER_SCHEMA))

\* the orders in which the rows of a sample can appear
Rearrangements(rows) ==
    {s \in [1..Len(rows) -> Range(rows)] :
        \A r \in Range(rows) :
            Cardinality({i \in 1..Len(rows) : s[i] = r}) = Cardinality({i \in 1..Len(rows) : rows[i] = r})}

\* the types inferred from the given rows
TypesInferredFrom(rows) == InferDataTypes(rows, 0, [i \in 1..Len(CsvHeaders) |-> "Unknown"]).types

\* C23: the type inferred for a column is the least upper bound, in the
\* lattice Bool|Int < Float < String, of the types of the column's values in
\* the first (at most 10) data rows: it is at least the type of every sampled
\* value, it does not depend on the order of the sampled rows, it never moves
\* down the lattice as rows are read, and rows after the tenth do not affect it.
C23_InferredTypeIsLeastUpperBound ==
    (csvTypes # <<>> /\ csvRecords # <<>>) =>
        LET Holds(sample) ==
                /\ csvTypes = TypesInferredFrom(sample)
                /\ \A c \in 1..Len(CsvHeaders) :
                      /\ \A i \in 1..Len(sample) :
                            LatticeLevel(csvTypes[c]) >= LatticeLevel(ValueType(sample[i][c]))
                      /\ \A k \in 1..(Len(sample) - 1) :
                            LatticeLevel(TypesInferredFrom(SubSeq(sample, 1, k + 1))[c])
                                >= LatticeLevel(TypesInferredFrom(SubSeq(sample, 1, k))[c])
                /\ \A other \in Rearrangements(sample) : TypesInferredFrom(other) = csvTypes
        IN  Holds(SampledRows(csvRecords))

(* ---------------------- properties: Sort failures ---------------------- *)
\* Sort::sort fails on some two rows of the child
SortFailsOnSomePair ==
    \E i, j \in 1..Len(srtChild) :
        i # j /\ \E k \in 1..Len(srtOpts) : SortCmp(srtOpts[k], srtChild[i], srtChild[j]) = "Err"

\* C24: a failure while Sort evaluates or compares a sort expression on two
\* rows surfaces as a DBError returned from next(): next() never aborts, and
\* no row of a partially sorted result is handed out.
C24_SortFailureSurfacesAsError ==
    /\ srtStatus \in {"ok", "err"}
    /\ SortFailsOnSomePair => srtOut = <<>>

(* ---------------------- properties: idempotence ------------------------ *)
\* some rule of some stage reports a change on the plan, or fails on it
SomeRuleChanges(plan) ==
    \/ \E rule \in {"ResolvePlan", "PushDownAggregators"} :
          \E r \in PlanTransformBottomUp(rule, plan) : ~r.ok \/ r.some
    \/ \E rule \in {"ResolveExpr", "ResolveLiteralTypes", "ResolveFunctions"} :
          ~PlanTransformExprs(rule, plan).ok \/ PlanTransformExprs(rule, plan).some

RECURSIVE SubExprs(_)
\* the nodes of an expression
SubExprs(e) == {e} \cup UNION {SubExprs(e.args[i]) : i \in 1..Len(e.args)}

\* the names of the scratch fields of an aggregator
ScratchNames(agg) == {agg.bufferSchema[i].name : i \in 1..Len(agg.bufferSchema)}

\* C26: after resolve_expr(input_schema) every reference of the buffer
\* expressions to a scratch field is a FieldRef whose index is at least the
\* number of fields of input_schema, also when input_schema has a column of
\* the scratch field's name, and every reference to an input column has an
\* index below that number.
C26_ScratchRefsPointPastInput ==
    (raDone /\ raOk) =>
        \A i \in 1..Len(raAgg.exprs) : \A node \in SubExprs(raAgg.exprs[i]) :
            /\ node.kind # "UnResolvedFieldRef"
            /\ node.kind = "FieldRef" =>
                  IF node.name \in ScratchNames(raAgg)
                  THEN node.index >= Len(raFields) /\ node.index < Len(raFields) + Len(raAgg.bufferSchema)
                  ELSE node.index < Len(raFields)

(* ---------------------- properties: failed INSERT ---------------------- *)
\* the errors a statement can return
IsError(result) == result \notin {"none", "ok", "rows"}

\* C27: an INSERT that returns an error leaves the table unchanged: the step
\* in which the statement returns the error stores none of its rows, the rows
\* before the failing one included, and leaves nothing behind to be stored
\* later; so the table holds exactly the rows of the INSERTs that returned Ok
\* and a later SELECT sees the rows present before the statement.
C27_FailedInsertLeavesTableUnchanged ==
    [][\A t \in Threads :
          (dbStatements' # dbStatements /\ IsError(dbResult'[t]) /\ dbPc[t] = "idle")
              => /\ tblData' = tblData
                 /\ dbPc'[t] = "idle" /\ dbPending'[t] = <<>>
                 /\ PrintedRows(tblData') = dbLog']_vars

\* an INSERT of two rows failed on its second row after another INSERT had
\* stored a row, and a SELECT that began later returned that one row
C27_Witness ==
    \E t, u \in Threads :
        /\ dbResult[t] = "ParserError"
        /\ dbResult[u] = "rows" /\ Len(selOut[u]) = 1 /\ selOut[u] = tblData

(* --------------------------- properties: locks ------------------------- *)
\* thread t holds a guard of the lock, or is asking for one
HoldsGuard(t, lock) == t \in lkReaders[lock] \/ lkWriter[lock] = t
Requests(t, lock) == lkProg[t] # <<>> /\ Head(lkProg[t]).op = "acq" /\ Head(lkProg[t]).lock = lock

\* C28: threads running CREATE TABLE, INSERT and SELECT on one CrackDB never
\* deadlock: while a statement is under way some thread can make its next
\* operation; the tables map's lock is asked for and held under the catalog's
\* guard only; a table's own lock is asked for only after the guards of the
\* catalog and of the tables map have been released; and the lazy csv install
\* has released its read guard on the tables map when it asks for the write
\* guard.
C28_NoDeadlockLockOrder ==
    /\ (\E t \in Threads : lkProg[t] # <<>>) => \E t \in Threads : CanStep(t)
    /\ \A t \in Threads :
          /\ (HoldsGuard(t, "tables") \/ Requests(t, "tables")) => HoldsGuard(t, "catalog")
          /\ \A l \in {"table", "csvTable"} :
                (HoldsGuard(t, l) \/ Requests(t, l)) => ~HoldsGuard(t, "catalog") /\ ~HoldsGuard(t, "tables")
          /\ \A l \in Locks : Requests(t, l) => ~HoldsGuard(t, l)

\* two threads missed the csv path; one holds the write guard of the tables
\* map for its install while the other waits for it
C28_Witness ==
    \E t, u \in Threads :
        /\ t # u /\ lkWriter["tables"] = t /\ lkMiss[t] /\ lkMiss[u]
        /\ WaitsToWrite(u, "tables") /\ ~CanStep(u)

(* -------------------- properties: scan of the sample ------------------- *)
\* C29: in a csv file whose records all have as many cells as the header,
\* every cell of the sampled records (the first 10) parses as the type
\* inferred for its column, in whatever order the values come; so the scan
\* does not fail on a cell of a sampled record.
C29_SampledCellsParseAsInferred ==
    /\ csvTypes # <<>> =>
          \A i \in 1..Len(SampledRows(csvRecords)) : \A c \in 1..Len(CsvHeaders) :
              ParseValue(csvRecords[i][c], csvTypes[c]).ok
    /\ (csvPc = "failed" /\ csvErrStage = "next" /\ csvErr = "ParserError")
          => csvPos > NUM_RECORDS_TO_INFER_SCHEMA

(* ----------------------- properties: end of stream --------------------- *)
\* node i of the pipeline is a Sort or a HashAggregator
Blocking(i) == i > 1 /\ plPlan[i - 1].kind \in {"Sort", "HashAggregator"}

\* C30: in every pipeline of scan, Filter, Projection, Limit, Sort and
\* HashAggregator the end of the stream is sticky: no operator returns a row
\* once its next() has returned None, and the root hands out none; a Sort and
\* a HashAggregator return their first row only after their child has
\* returned None, and they drain the child once: the child's next() is not
\* called again after it has returned None.
C30_EndOfStreamIsSticky ==
    /\ \A i \in 1..Len(plState) :
          /\ ~plState[i].lateRow
          /\ Blocking(i) =>
                /\ ~plState[i].early
                /\ plState[i - 1].afterNone = 0 /\ plState[i - 1].nones <= 1
                /\ plState[i].calls > 0 /\ plStatus = "ready" => plState[i - 1].nones = 1
    /\ LET Root(r) ==
               (plStatus = "ready" /\ r.nones > 0) =>
                   /\ r.nones = r.afterNone + 1
                   /\ Len(plOut) = r.calls - r.nones
       IN  plState # <<>> => Root(plState[Len(plState)])

\* a Sort over a Limit was called twice more after it had returned None, with
\* rows handed out before; the Limit under it had stopped before the end of
\* the scan
C30_Witness ==
    /\ Len(plPlan) = 2 /\ plPlan[1].kind = "Limit" /\ plPlan[2].kind = "Sort"
    /\ plState[3].afterNone >= 2 /\ plOut # <<>> /\ plStatus = "ready"
    /\ plState[1].calls < Len(plTable)

====
